---------------------------- MODULE Spec2Model ----------------------------
(***************************************************************************)
(* Verification model of cbro_parser: the rate limiter                     *)
(* (comicvine/rate_limiter.py), the series matcher (comicvine/matcher.py)  *)
(* with the parts of the SQLite cache it reads and writes                  *)
(* (cache/sqlite_cache.py), and the per-source matching loops of the       *)
(* front ends (cli.py, gui/app.py).                                        *)
(*                                                                         *)
(* Each subsystem has its own specification over the shared variable       *)
(* list; a specification keeps the other subsystems' variables fixed.      *)
(***************************************************************************)
EXTENDS Integers, Sequences, FiniteSets, TLC

(***************************************************************************)
(* Bounds of the model.                                                    *)
(***************************************************************************)
NumThreads == 2        \* threads sharing one RateLimiter
MaxAcquires == 3       \* acquire() calls started in one run, all threads
MaxTicks == 3          \* clock ticks that pass other than by sleeping
MaxCands == 2          \* candidate volumes in one catalog search result
MaxRequestsCfg == 2    \* max_requests is drawn from 0..MaxRequestsCfg
WindowCfg == 2         \* window_seconds
IntervalCfg == 1       \* min_interval is 0 or IntervalCfg

NoThread == 0
Threads == 1..NumThreads

VARIABLES
    \* ---- RateLimiter (rate_limiter.py) ----
    max_requests,        \* self.max_requests
    window_seconds,      \* self.window_seconds
    min_interval,        \* self.min_interval
    request_times,       \* self._request_times, the deque, oldest first
    last_request_time,   \* self._last_request_time
    lock,                \* self._lock: NoThread or the thread holding it
    now,                 \* the value time.time() returns
    pc,                  \* per thread: where it is in its current call
    current_time,        \* per thread: acquire()'s local current_time
    wake,                \* per thread: when its time.sleep() may return
    returned,            \* history: timestamps recorded by acquire(), in order
    query_result,        \* the value the last query returned
    started,             \* acquire() calls started so far
    \* ---- SeriesMatcher._select_best_volume (matcher.py) ----
    sb_pc,               \* "ready" before the call, "done" after it
    sb_volumes,          \* argument volumes: the candidate list
    sb_name,             \* argument normalized_name
    sb_target,           \* argument target_year (NoYear for None)
    scored_volumes,      \* local scored_volumes before the sort
    best_match,          \* the value returned (NoVolume for None)
    \* ---- SQLiteCache (sqlite_cache.py): the database file ----
    today,               \* the current day
    cache_volumes,       \* table volumes: rows [vol, cached_at]
    cache_issues,        \* table issues: rows [issue, cached_at]
    cache_lookup,        \* table issue_lookup
    cache_mapping,       \* table series_mapping
    \* ---- one front-end run (cli.py, gui/app.py) and its SeriesMatcher ----
    m_pc,                \* "idle", "source", "loop" or "written"
    run_kind,            \* "none", "parse", "batch" or "gui"
    interactive,         \* SeriesMatcher.interactive
    urls_left,           \* sources of the run not yet processed
    sources,             \* sources fetched so far, over all runs
    volume_issues_cache, \* SeriesMatcher._volume_issues_cache
    parsed_issues,       \* parsed_issues of the current source
    idx,                 \* position of the matching loop in parsed_issues
    all_books,           \* all_books of the current source
    match_results,       \* history: what match_issue returned, per input
    last_searched,       \* history: the last match_issue called search_volumes
    last_volume,         \* history: what the last _find_volume returned
    fetch_calls,         \* history: get_volume_issues calls of this matcher
    last_exit,           \* how the last run ended
    \* ---- SQLiteCache operations called directly (sqlite_cache.py) ----
    tx_pc,               \* "idle", or where cache_volume_issues is
    tx_issues,           \* table issues as the open transaction sees it
    tx_lookup,           \* table issue_lookup as the open transaction sees it
    tx_todo,             \* issues cache_volume_issues has yet to write
    tx_before,           \* history: issues and issue_lookup when it began
    ce_result,           \* what the last clear_expired returned
    ce_deleted,          \* history: rows the last clear_expired deleted
    co_ops,              \* cache operations called so far
    \* ---- ComicVineClient.get_volume_issues (api_client.py) ----
    pg_total,            \* number_of_total_results the catalog reports
    pg_pc,               \* "ready", "running", "returned" or "raised"
    pg_stack,            \* the activations of get_volume_issues, outermost first
    pg_requests,         \* _make_request calls made
    pg_result,           \* the list the outermost call returned
    \* ---- match_issue step 4 on its own (matcher.py) ----
    bk_pc,               \* "ready" or "built"
    bk_volume,           \* the volume _find_volume returned
    bk_issue,            \* the issue _find_issue returned
    bk_book,             \* the MatchedBook built from them
    \* ---- cancelling a GUI generation (gui/app.py, progress_dialog.py) ----
    cancelled,           \* progress.cancelled or shutdown_event.is_set()
    after_cancel,        \* history: match_issue calls started since it was set
    \* ---- CBLWriter.write then CBLReader.read (cbl/writer.py, cbl/reader.py) ----
    cbl_pc,              \* "ready", "written" or "read"
    cbl_list,            \* the ReadingList handed to write
    cbl_file,            \* the document in the file
    cbl_read,            \* the ReadingList read back
    \* ---- ThreadManager (gui/thread_manager.py) ----
    tm_threads,          \* the names in self._threads
    tm_state,            \* each name's thread: "none", "registered", "alive",
                         \* "finished" (returned by itself) or "exited" (saw the event)
    tm_shutdown_event,   \* self._shutdown_event is set
    sd_pc,               \* shutdown(): "idle", "joining" or "done"
    q_pc,                \* active_thread_names(): "idle" or "cleaned"
    q_names,             \* what the last active_thread_names() returned
    \* ---- get_config / reset_config (config.py) ----
    cfg_config,          \* the global _config: NoConfig or an instance
    cfg_made,            \* Config instances created so far
    cfg_pc,              \* each getter: "idle", "fast" or "slow"
    cfg_result,          \* what each getter's last get_config() returned
    cfg_calls,           \* get_config() calls each getter has made
    cfg_resets           \* reset_config() calls made

rlVars == <<max_requests, window_seconds, min_interval, request_times,
            last_request_time, lock, now, pc, current_time, wake, returned,
            query_result, started>>

sbVars == <<sb_pc, sb_volumes, sb_name, sb_target, scored_volumes, best_match>>

cacheVars == <<today, cache_volumes, cache_issues, cache_lookup, cache_mapping>>

runVars == <<m_pc, run_kind, interactive, urls_left, sources,
             volume_issues_cache, parsed_issues, idx, all_books,
             match_results, last_searched, last_volume, fetch_calls,
             last_exit>>

mVars == <<cacheVars, runVars>>

coVars == <<tx_pc, tx_issues, tx_lookup, tx_todo, tx_before, ce_result,
            ce_deleted, co_ops>>

pgVars == <<pg_total, pg_pc, pg_stack, pg_requests, pg_result>>

bkVars == <<bk_pc, bk_volume, bk_issue, bk_book>>

cblVars == <<cbl_pc, cbl_list, cbl_file, cbl_read>>

\* The variables of the parts modelled on their own further down
tmVars == <<tm_threads, tm_state, tm_shutdown_event, sd_pc, q_pc, q_names>>

cfgVars == <<cfg_config, cfg_made, cfg_pc, cfg_result, cfg_calls, cfg_resets>>

zVars == <<cblVars, tmVars, cfgVars>>

xVars == <<coVars, pgVars, bkVars, zVars>>

guiVars == <<cancelled, after_cancel>>

vars == <<rlVars, sbVars, mVars, xVars, guiVars>>

(***************************************************************************)
(* RateLimiter                                                             *)
(***************************************************************************)

\* while self._request_times and self._request_times[0] < cutoff: popleft()
RECURSIVE Evict(_, _)
Evict(q, cutoff) ==
    IF q # <<>> /\ Head(q) < cutoff THEN Evict(Tail(q), cutoff) ELSE q

Max(a, b) == IF a >= b THEN a ELSE b

\* Mutant of SleepUntil: the sleep returns at once.
SleepUntilNoWait(at, d) == at

\* time.sleep(d) called at clock value `at`: the earliest clock value at which
\* the sleeping thread runs again.
SleepUntil(at, d) == at + d

\* Mutant of Record: the deque is replaced instead of appended to, as when
\* two unserialised callers each write back their own copy.
RecordOverwrite(q, t) == <<t>>

\* self._request_times.append(current_time)
Record(q, t) == Append(q, t)

\* Mutant of Release: the lock stays with the caller, as without the
\* with-block.
ReleaseKept(t) == t

\* The with-block of acquire() is left: the lock is free again.
Release(t) == NoThread

\* The clock's first reading: late enough that the first call needs no
\* interval sleep, as with the epoch clock time.time() reads.
StartTime == IntervalCfg + 1

\* RateLimiter.__init__
RLInit ==
    /\ max_requests \in 0..MaxRequestsCfg
    /\ window_seconds = WindowCfg
    /\ min_interval \in {0, IntervalCfg}
    /\ request_times = <<>>
    /\ last_request_time = 0
    /\ lock = NoThread
    /\ now = StartTime
    /\ pc = [t \in Threads |-> "idle"]
    /\ current_time = [t \in Threads |-> 0]
    /\ wake = [t \in Threads |-> 0]
    /\ returned = <<>>
    /\ query_result = -1
    /\ started = 0

\* Lines 61-68 of acquire(), run with current_time = cur and the deque q:
\* sleep for the rest of the minimum interval, or record the call and leave
\* the with-block. The caller holds the lock, or takes it in this step.
IntervalOrRecord(t, cur, q) ==
    LET elapsed == cur - last_request_time IN
    IF elapsed < min_interval
    THEN /\ pc' = [pc EXCEPT ![t] = "sleep_interval"]
         /\ wake' = [wake EXCEPT ![t] = SleepUntil(now, min_interval - elapsed)]
         /\ current_time' = [current_time EXCEPT ![t] = cur]
         /\ request_times' = q
         /\ lock' = t
         /\ UNCHANGED <<last_request_time, returned>>
    ELSE /\ request_times' = Record(q, cur)
         /\ last_request_time' = cur
         /\ returned' = Append(returned, cur)
         /\ lock' = Release(t)
         /\ pc' = [pc EXCEPT ![t] = "idle"]
         /\ current_time' = [current_time EXCEPT ![t] = cur]
         /\ UNCHANGED wake

\* A thread calls acquire() and reaches `with self._lock`.
AcquireCall(t) ==
    /\ pc[t] = "idle"
    /\ started < MaxAcquires
    /\ pc' = [pc EXCEPT ![t] = "acquire_wait"]
    /\ started' = started + 1
    /\ UNCHANGED <<max_requests, window_seconds, min_interval, request_times,
                   last_request_time, lock, now, current_time, wake, returned,
                   query_result, sbVars, mVars, xVars, guiVars>>

\* acquire() lines 41-54 (and 61-68 when the window is not full): take the
\* lock, read the clock, evict, and either sleep for the window, fail on the
\* empty deque, or go on to the interval check.
AcquireEnter(t) ==
    /\ pc[t] = "acquire_wait"
    /\ lock = NoThread
    /\ LET cur == now
           q == Evict(request_times, cur - window_seconds)
       IN IF Len(q) >= max_requests
          THEN IF q = <<>>
               THEN \* self._request_times[0] on an empty deque: IndexError,
                    \* the with-block releases the lock
                    /\ pc' = [pc EXCEPT ![t] = "raised"]
                    /\ request_times' = q
                    /\ current_time' = [current_time EXCEPT ![t] = cur]
                    /\ UNCHANGED <<last_request_time, lock, wake, returned>>
               ELSE LET sleep_until == Head(q) + window_seconds
                        sleep_time == sleep_until - cur
                    IN /\ lock' = t
                       /\ request_times' = q
                       /\ current_time' = [current_time EXCEPT ![t] = cur]
                       /\ IF sleep_time > 0
                          THEN /\ pc' = [pc EXCEPT ![t] = "sleep_window"]
                               /\ wake' = [wake EXCEPT
                                             ![t] = SleepUntil(now, sleep_time)]
                          ELSE /\ pc' = [pc EXCEPT ![t] = "window_done"]
                               /\ UNCHANGED wake
                       /\ UNCHANGED <<last_request_time, returned>>
          ELSE IntervalOrRecord(t, cur, q)
    /\ UNCHANGED <<max_requests, window_seconds, min_interval, now,
                   query_result, started, sbVars, mVars, xVars, guiVars>>

\* time.sleep(sleep_time) at line 54 returns: the clock has reached the wake
\* time (time passes while the thread sleeps).
WindowWake(t) ==
    /\ pc[t] = "sleep_window"
    /\ now' = Max(now, wake[t])
    /\ pc' = [pc EXCEPT ![t] = "window_done"]
    /\ UNCHANGED <<max_requests, window_seconds, min_interval, request_times,
                   last_request_time, lock, current_time, wake, returned,
                   query_result, started, sbVars, mVars, xVars, guiVars>>

\* acquire() lines 55-68: read the clock again, evict again, then the
\* interval check.
WindowResume(t) ==
    /\ pc[t] = "window_done"
    /\ LET cur == now
           q == Evict(request_times, cur - window_seconds)
       IN IntervalOrRecord(t, cur, q)
    /\ UNCHANGED <<max_requests, window_seconds, min_interval, now,
                   query_result, started, sbVars, mVars, xVars, guiVars>>

\* time.sleep(self.min_interval - elapsed) at line 64 returns.
IntervalWake(t) ==
    /\ pc[t] = "sleep_interval"
    /\ now' = Max(now, wake[t])
    /\ pc' = [pc EXCEPT ![t] = "interval_done"]
    /\ UNCHANGED <<max_requests, window_seconds, min_interval, request_times,
                   last_request_time, lock, current_time, wake, returned,
                   query_result, started, sbVars, mVars, xVars, guiVars>>

\* acquire() lines 65-68: read the clock, record the call, release the lock.
IntervalResume(t) ==
    /\ pc[t] = "interval_done"
    /\ LET cur == now
       IN /\ request_times' = Record(request_times, cur)
          /\ last_request_time' = cur
          /\ returned' = Append(returned, cur)
          /\ current_time' = [current_time EXCEPT ![t] = cur]
    /\ lock' = Release(t)
    /\ pc' = [pc EXCEPT ![t] = "idle"]
    /\ UNCHANGED <<max_requests, window_seconds, min_interval, now, wake,
                   query_result, started, sbVars, mVars, xVars, guiVars>>

\* What requests_made() returns when it runs in the current state.
RequestsMadeValue == Len(Evict(request_times, now - window_seconds))

\* What remaining_requests() returns when it runs in the current state.
RemainingRequestsValue == max_requests - RequestsMadeValue

\* A thread calls remaining_requests() and reaches `with self._lock`.
RemainingCall(t) ==
    /\ pc[t] = "idle"
    /\ pc' = [pc EXCEPT ![t] = "remaining_wait"]
    /\ UNCHANGED <<max_requests, window_seconds, min_interval, request_times,
                   last_request_time, lock, now, current_time, wake, returned,
                   query_result, started, sbVars, mVars, xVars, guiVars>>

\* remaining_requests() lines 72-77, run once the lock is free.
RemainingRequests(t) ==
    /\ pc[t] = "remaining_wait"
    /\ lock = NoThread
    /\ request_times' = Evict(request_times, now - window_seconds)
    /\ query_result' = RemainingRequestsValue
    /\ pc' = [pc EXCEPT ![t] = "idle"]
    /\ UNCHANGED <<max_requests, window_seconds, min_interval,
                   last_request_time, lock, now, current_time, wake, returned,
                   started, sbVars, mVars, xVars, guiVars>>

\* requests_made() lines 89-94: the lock is taken when free, the deque is
\* evicted and its length returned.
RequestsMade(t) ==
    /\ pc[t] = "idle"
    /\ lock = NoThread
    /\ request_times' = Evict(request_times, now - window_seconds)
    /\ query_result' = RequestsMadeValue
    /\ UNCHANGED <<max_requests, window_seconds, min_interval,
                   last_request_time, lock, now, pc, current_time, wake,
                   returned, started, sbVars, mVars, xVars, guiVars>>

\* The clock advances.
Tick ==
    /\ now < StartTime + MaxTicks
    /\ now' = now + 1
    /\ UNCHANGED <<max_requests, window_seconds, min_interval, request_times,
                   last_request_time, lock, pc, current_time, wake, returned,
                   query_result, started, sbVars, mVars, xVars, guiVars>>

RLNext ==
    \/ \E t \in Threads : AcquireCall(t)
    \/ \E t \in Threads : AcquireEnter(t)
    \/ \E t \in Threads : WindowWake(t)
    \/ \E t \in Threads : WindowResume(t)
    \/ \E t \in Threads : IntervalWake(t)
    \/ \E t \in Threads : IntervalResume(t)
    \/ \E t \in Threads : RemainingCall(t)
    \/ \E t \in Threads : RemainingRequests(t)
    \/ \E t \in Threads : RequestsMade(t)
    \/ Tick

\* A thread is between entering and leaving the with-block of acquire().
InAcquire(t) ==
    pc[t] \in {"sleep_window", "window_done", "sleep_interval", "interval_done"}

\* Some thread inside acquire(), or waiting to enter it, takes a step.
AcquireProgress ==
    \E t \in Threads :
        \/ AcquireEnter(t)
        \/ WindowWake(t)
        \/ WindowResume(t)
        \/ IntervalWake(t)
        \/ IntervalResume(t)

(***************************************************************************)
(* C1: with max_requests N >= 1, at the moment each acquire() returns, the *)
(* recorded timestamps lying in the trailing window of window_seconds that *)
(* ends at the call's own timestamp, the call included, number at most N.  *)
(* returned[k] is the k-th call's timestamp and returned[1..k] are the     *)
(* timestamps recorded when it returns; the window is taken half-open,     *)
(* (ts - W, ts], the reading most favourable to the code.                  *)
(***************************************************************************)
C1_WindowLimit ==
    max_requests >= 1 =>
        \A k \in 1..Len(returned) :
            Cardinality({i \in 1..k :
                returned[i] > returned[k] - window_seconds}) <= max_requests

(***************************************************************************)
(* C2: the timestamps of any two consecutive returns from acquire(), by    *)
(* the same thread or by different threads, differ by at least             *)
(* min_interval.                                                           *)
(***************************************************************************)
C2_MinInterval ==
    \A k \in 1..(Len(returned) - 1) :
        returned[k + 1] - returned[k] >= min_interval

\* Two calls by two different threads returned exactly min_interval apart,
\* the second after sleeping until its timestamp.
C2_Witness ==
    /\ min_interval >= 1
    /\ Len(returned) >= 2
    /\ returned[2] - returned[1] = min_interval
    /\ \A t \in Threads : pc[t] = "idle" /\ current_time[t] \in {returned[1], returned[2]}
    /\ \E t \in Threads : current_time[t] = returned[1]
    /\ \E t \in Threads : wake[t] = returned[2]

(***************************************************************************)
(* C3: when the acquire() calls started number at most max_requests (K     *)
(* concurrent callers, max_requests >= K), no call fails, every call is    *)
(* either still in progress or has recorded exactly one timestamp, a call  *)
(* in progress can always take its next step (so every call returns), and  *)
(* while all recorded timestamps are inside the window the deque holds     *)
(* exactly the recorded timestamps and requests_made() returns their       *)
(* number.                                                                 *)
(***************************************************************************)
C3_NoLostAcquire ==
    started <= max_requests =>
        /\ \A t \in Threads : pc[t] # "raised"
        /\ Len(returned)
             + Cardinality({t \in Threads : pc[t] = "acquire_wait" \/ InAcquire(t)})
             = started
        /\ (\E t \in Threads : pc[t] = "acquire_wait" \/ InAcquire(t))
             => ENABLED AcquireProgress
        /\ (\A i \in 1..Len(returned) : returned[i] >= now - window_seconds)
             => /\ request_times = returned
                /\ RequestsMadeValue = Len(returned)

\* Every thread has made one call, all have returned, and requests_made()
\* would return their number.
C3_Witness ==
    /\ started = NumThreads
    /\ started <= max_requests
    /\ \A t \in Threads : pc[t] = "idle" /\ current_time[t] > 0
    /\ Len(returned) = NumThreads
    /\ RequestsMadeValue = NumThreads

(***************************************************************************)
(* C4: with max_requests = 0, acquire() blocks permanently: it never       *)
(* returns and never raises an error.                                      *)
(***************************************************************************)
C4_ZeroBlocksForever ==
    max_requests = 0 =>
        /\ returned = <<>>
        /\ \A t \in Threads : pc[t] # "raised"

(***************************************************************************)
(* C5: remaining_requests() does not block: a call made while another      *)
(* thread sleeps inside acquire() can complete without waiting for that    *)
(* acquire() to finish.                                                    *)
(***************************************************************************)
C5_RemainingNonBlocking ==
    \A t, u \in Threads :
        (pc[t] = "remaining_wait" /\ pc[u] \in {"sleep_window", "sleep_interval"})
            => ENABLED RemainingRequests(t)

(***************************************************************************)
(* Series names. A name is a sequence of characters over the alphabet      *)
(* "A", "a", "b", "-", " ".                                                *)
(***************************************************************************)

\* str.lower() on one character
Lower(c) == IF c = "A" THEN "a" ELSE c

\* re.sub(r"[:\-_]", " ", name) on one character
DashToSpace(c) == IF c = "-" THEN " " ELSE c

\* " ".join(name.split()): runs of spaces collapse to one, none at the ends
RECURSIVE CollapseSpaces(_, _)
CollapseSpaces(name, pending) ==
    IF name = <<>> THEN <<>>
    ELSE IF Head(name) = " " THEN CollapseSpaces(Tail(name), TRUE)
    ELSE (IF pending THEN <<" ">> ELSE <<>>) \o <<Head(name)>>
            \o CollapseSpaces(Tail(name), FALSE)

RECURSIVE DropLeadingSpaces(_)
DropLeadingSpaces(name) ==
    IF name # <<>> /\ Head(name) = " " THEN DropLeadingSpaces(Tail(name)) ELSE name

\* normalize_series_name on names of the alphabet: lower-case, dashes to
\* spaces, whitespace normalised. (The volume, year, article, punctuation and
\* apostrophe rules match nothing over this alphabet.)
NormalizeSeriesName(name) ==
    CollapseSpaces(
        DropLeadingSpaces([i \in 1..Len(name) |-> DashToSpace(Lower(name[i]))]),
        FALSE)

\* Python's `a in b` on strings
Contains(a, b) ==
    \E i \in 0..(Len(b) - Len(a)) : \A j \in 1..Len(a) : b[i + j] = a[j]

(***************************************************************************)
(* SeriesMatcher._select_best_volume                                       *)
(***************************************************************************)
NoYear == 0      \* target_year None, and start_year 0: both falsy in the code
NoVolume == [cv_volume_id |-> 0, name |-> <<>>, start_year |-> 0,
             issue_count |-> 0, aliases |-> <<>>]

\* matcher.py lines 182-186
NameScore(vol, normalized_name) ==
    LET vol_normalized == NormalizeSeriesName(vol.name) IN
    IF vol_normalized = normalized_name THEN 100
    ELSE IF Contains(normalized_name, vol_normalized)
            \/ Contains(vol_normalized, normalized_name) THEN 50
    ELSE 0

\* matcher.py lines 188-198: the loop over vol.aliases, which stops at the
\* first exact alias
RECURSIVE AliasScore(_, _)
AliasScore(aliases, normalized_name) ==
    IF aliases = <<>> THEN 0
    ELSE LET alias_normalized == NormalizeSeriesName(Head(aliases)) IN
         IF alias_normalized = normalized_name THEN 80
         ELSE IF Contains(normalized_name, alias_normalized)
                 \/ Contains(alias_normalized, normalized_name)
              THEN 30 + AliasScore(Tail(aliases), normalized_name)
         ELSE AliasScore(Tail(aliases), normalized_name)

Abs(x) == IF x < 0 THEN -x ELSE x

\* matcher.py lines 200-208
YearScore(vol, target_year) ==
    IF target_year # NoYear /\ vol.start_year # 0
    THEN LET year_diff == Abs(vol.start_year - target_year) IN
         IF year_diff = 0 THEN 30
         ELSE IF year_diff <= 1 THEN 20
         ELSE IF year_diff <= 3 THEN 10
         ELSE 0
    ELSE 0

\* matcher.py lines 210-214: the first test that holds decides
SizeBonus(issue_count) ==
    IF issue_count > 10 THEN 5
    ELSE IF issue_count > 50 THEN 10
    ELSE 0

\* matcher.py lines 178-216: one candidate's score
Score(vol, normalized_name, target_year) ==
    NameScore(vol, normalized_name) + AliasScore(vol.aliases, normalized_name)
        + YearScore(vol, target_year) + SizeBonus(vol.issue_count)

\* matcher.py lines 176-216: scored_volumes, in candidate order
ScoredVolumes(volumes, normalized_name, target_year) ==
    [i \in 1..Len(volumes) |->
        [score |-> Score(volumes[i], normalized_name, target_year),
         vol |-> volumes[i]]]

\* Mutant of InsertDesc: an entry goes in front of the entries of equal score.
RECURSIVE InsertDescTiesFirst(_, _)
InsertDescTiesFirst(sorted, e) ==
    IF sorted = <<>> THEN <<e>>
    ELSE IF Head(sorted).score > e.score
         THEN <<Head(sorted)>> \o InsertDescTiesFirst(Tail(sorted), e)
         ELSE <<e>> \o sorted

\* list.sort(key=score, reverse=True) is stable: an entry goes behind the
\* entries of greater or equal score that precede it.
RECURSIVE InsertDesc(_, _)
InsertDesc(sorted, e) ==
    IF sorted = <<>> THEN <<e>>
    ELSE IF Head(sorted).score >= e.score
         THEN <<Head(sorted)>> \o InsertDesc(Tail(sorted), e)
         ELSE <<e>> \o sorted

\* matcher.py line 222
RECURSIVE SortDesc(_)
SortDesc(scored) ==
    IF scored = <<>> THEN <<>>
    ELSE InsertDesc(SortDesc(SubSeq(scored, 1, Len(scored) - 1)),
                    scored[Len(scored)])

\* matcher.py line 231
AcceptScore == 50

\* matcher.py lines 169-235
SelectBestVolume(volumes, normalized_name, target_year) ==
    LET scored == ScoredVolumes(volumes, normalized_name, target_year) IN
    IF scored = <<>> THEN NoVolume
    ELSE LET best == Head(SortDesc(scored)) IN
         IF best.score >= AcceptScore THEN best.vol ELSE NoVolume

\* Candidate data: names and aliases that normalise to the query, contain
\* it, or are unrelated; start years around the target; issue counts around
\* the two thresholds.
QueryName == <<"a">>
CandNames == {<<"A">>, <<"A", "-", "b">>, <<"b">>}
CandAliases == {<<>>, <<<<"a", "b">>>>, <<<<"A">>, <<"a", "b">>>>}
TargetYear == 2005
CandYears == {0, TargetYear, TargetYear + 1}
CandCounts == {10, 11, 51}
CandAttrs == [name : CandNames, aliases : CandAliases, start_year : CandYears,
              issue_count : CandCounts]

\* A search result: the candidates f[1..n], given distinct catalog ids.
CandList(n, f) ==
    [i \in 1..n |->
        [cv_volume_id |-> i, name |-> f[i].name, start_year |-> f[i].start_year,
         issue_count |-> f[i].issue_count, aliases |-> f[i].aliases]]

SBInit ==
    /\ sb_pc = "ready"
    /\ \E n \in 0..MaxCands : \E f \in [1..n -> CandAttrs] :
          sb_volumes = CandList(n, f)
    /\ sb_name = QueryName
    /\ sb_target \in {NoYear, TargetYear}
    /\ scored_volumes = <<>>
    /\ best_match = NoVolume

\* The variables of _select_best_volume while no call is modelled.
SBIdle ==
    /\ sb_pc = "off"
    /\ sb_volumes = <<>>
    /\ sb_name = <<>>
    /\ sb_target = NoYear
    /\ scored_volumes = <<>>
    /\ best_match = NoVolume

\* One call of _select_best_volume.
SelectBest ==
    /\ sb_pc = "ready"
    /\ sb_pc' = "done"
    /\ scored_volumes' = ScoredVolumes(sb_volumes, sb_name, sb_target)
    /\ best_match' = SelectBestVolume(sb_volumes, sb_name, sb_target)
    /\ UNCHANGED <<sb_volumes, sb_name, sb_target, rlVars, mVars, xVars, guiVars>>

(***************************************************************************)
(* Strings of digits                                                       *)
(***************************************************************************)
Digits == <<"0", "1", "2", "3", "4", "5", "6", "7", "8", "9">>

IsDigit(c) == \E d \in 1..10 : Digits[d] = c
DigitValue(c) == (CHOOSE d \in 1..10 : Digits[d] = c) - 1

\* int(s) for a string of digits; ValueError for anything else
ValueError == -1
RECURSIVE IntOfDigits(_, _)
IntOfDigits(s, acc) ==
    IF s = <<>> THEN acc
    ELSE IntOfDigits(Tail(s), acc * 10 + DigitValue(Head(s)))
IntOf(s) ==
    IF s # <<>> /\ \A i \in 1..Len(s) : IsDigit(s[i])
    THEN IntOfDigits(s, 0) ELSE ValueError

\* str(n) for n >= 0
RECURSIVE StrOf(_)
StrOf(n) ==
    IF n < 10 THEN <<Digits[n + 1]>>
    ELSE StrOf(n \div 10) \o <<Digits[(n % 10) + 1]>>

(***************************************************************************)
(* SQLiteCache: the tables are sets of rows; a row's key columns are       *)
(* unique. Time is counted in days.                                        *)
(***************************************************************************)
ExpiryDays == 1     \* expiry_days

NoId == 0           \* None for a volume id
NoIssue == [cv_issue_id |-> 0, cv_volume_id |-> 0, issue_number |-> <<>>,
            cover_date |-> <<>>]

\* _is_expired, evaluated on day `day`
IsExpired(cached_at, day) == day - cached_at > ExpiryDays

\* get_volume
GetVolume(volumes, cv_volume_id, day) ==
    LET rows == {r \in volumes : r.vol.cv_volume_id = cv_volume_id} IN
    IF rows # {} /\ ~IsExpired((CHOOSE r \in rows : TRUE).cached_at, day)
    THEN (CHOOSE r \in rows : TRUE).vol
    ELSE NoVolume

\* cache_volume: INSERT OR REPLACE by cv_volume_id
PutVolume(volumes, vol, day) ==
    {r \in volumes : r.vol.cv_volume_id # vol.cv_volume_id}
        \cup {[vol |-> vol, cached_at |-> day]}

RECURSIVE PutVolumes(_, _, _)
PutVolumes(volumes, vols, day) ==
    IF vols = <<>> THEN volumes
    ELSE PutVolumes(PutVolume(volumes, Head(vols), day), Tail(vols), day)

\* get_issue: the issues row joined to the lookup row of the key
GetIssue(issues, lookup, cv_volume_id, issue_number, day) ==
    LET rows == {r \in issues : \E l \in lookup :
                    /\ l.cv_volume_id = cv_volume_id
                    /\ l.issue_number = issue_number
                    /\ l.cv_issue_id = r.issue.cv_issue_id}
    IN IF rows # {} /\ ~IsExpired((CHOOSE r \in rows : TRUE).cached_at, day)
       THEN (CHOOSE r \in rows : TRUE).issue
       ELSE NoIssue

\* cache_issue lines 215-220: the lookup row's publication_year
PublicationYear(cover_date) ==
    IF cover_date # <<>> /\ Len(cover_date) >= 4
       /\ IntOf(SubSeq(cover_date, 1, 4)) # ValueError
    THEN IntOf(SubSeq(cover_date, 1, 4)) ELSE NoYear

\* cache_issue lines 203-213: INSERT OR REPLACE into issues by cv_issue_id
PutIssueRow(issues, issue, day) ==
    {r \in issues : r.issue.cv_issue_id # issue.cv_issue_id}
        \cup {[issue |-> issue, cached_at |-> day]}

\* cache_issue lines 222-234: INSERT OR REPLACE into issue_lookup by
\* (cv_volume_id, issue_number)
PutLookupRow(lookup, issue) ==
    {l \in lookup : ~(l.cv_volume_id = issue.cv_volume_id
                      /\ l.issue_number = issue.issue_number)}
        \cup {[cv_volume_id |-> issue.cv_volume_id,
               issue_number |-> issue.issue_number,
               cv_issue_id |-> issue.cv_issue_id,
               publication_year |-> PublicationYear(issue.cover_date)]}

\* cache_issue: both statements
PutIssue(tables, issue, day) ==
    [issues |-> PutIssueRow(tables.issues, issue, day),
     lookup |-> PutLookupRow(tables.lookup, issue)]

\* cache_volume_issues
RECURSIVE PutIssues(_, _, _)
PutIssues(tables, issues, day) ==
    IF issues = <<>> THEN tables
    ELSE PutIssues(PutIssue(tables, Head(issues), day), Tail(issues), day)

\* get_volume_for_series: the row of the exact key when a year is given,
\* else the first row by confidence, then start year, both descending; its
\* volume id unless the row is expired
GetVolumeForSeries(mapping, normalized_name, start_year, day) ==
    LET rows == IF start_year # NoYear
                THEN {m \in mapping : /\ m.normalized_name = normalized_name
                                      /\ m.start_year = start_year}
                ELSE {m \in mapping : m.normalized_name = normalized_name}
    IN IF rows = {} THEN NoId
       ELSE LET row == CHOOSE m \in rows : \A o \in rows :
                          \/ m.confidence > o.confidence
                          \/ /\ m.confidence = o.confidence
                             /\ m.start_year >= o.start_year
            IN IF ~IsExpired(row.cached_at, day) THEN row.cv_volume_id ELSE NoId

\* cache_series_mapping: INSERT OR REPLACE by (normalized_name, start_year);
\* confidence is kept in tenths
PutMapping(mapping, normalized_name, start_year, cv_volume_id, confidence, day) ==
    {m \in mapping : ~(m.normalized_name = normalized_name
                        /\ m.start_year = start_year)}
        \cup {[normalized_name |-> normalized_name, start_year |-> start_year,
               cv_volume_id |-> cv_volume_id, confidence |-> confidence,
               cached_at |-> day]}

(***************************************************************************)
(* The catalog (ComicVineClient) as seen by the matcher                    *)
(***************************************************************************)
V1 == [cv_volume_id |-> 1, name |-> <<"A">>, start_year |-> TargetYear,
       issue_count |-> 51, aliases |-> <<>>]
V2 == [cv_volume_id |-> 2, name |-> <<"A">>, start_year |-> TargetYear + 1,
       issue_count |-> 11, aliases |-> <<>>]
VolIds == {V1.cv_volume_id, V2.cv_volume_id}

I11 == [cv_issue_id |-> 11, cv_volume_id |-> 1, issue_number |-> <<"1">>,
        cover_date |-> <<"2", "0", "0", "7", "-">>]
I12 == [cv_issue_id |-> 12, cv_volume_id |-> 1, issue_number |-> <<"2">>,
        cover_date |-> <<>>]
I21 == [cv_issue_id |-> 21, cv_volume_id |-> 2, issue_number |-> <<"1">>,
        cover_date |-> <<"2", "0", "0">>]

\* search_volumes(query, limit=15) when the request succeeds: both volumes
\* for their name, an unrelated volume for "b", nothing for anything else
SearchVolumes(query) ==
    IF query = <<"A">> THEN <<V1, V2>>
    ELSE IF query = <<"b">> THEN <<V1>>
    ELSE <<>>

\* get_volume_issues(volume_id) when the requests succeed
GetVolumeIssues(cv_volume_id) ==
    IF cv_volume_id = 1 THEN <<I11, I12>>
    ELSE IF cv_volume_id = 2 THEN <<I21>>
    ELSE <<>>

\* What a catalog call can do: return, or raise one of the two errors of
\* _make_request
CallOutcomes == {"ok", "RequestException", "ComicVineAPIError"}

(***************************************************************************)
(* text_normalizer: build_search_query, extract_year_from_name             *)
(***************************************************************************)
RECURSIVE RStrip(_, _)
RStrip(s, chars) ==
    IF s # <<>> /\ s[Len(s)] \in chars
    THEN RStrip(SubSeq(s, 1, Len(s) - 1), chars) ELSE s

\* build_search_query on names of the alphabet: trailing dashes removed,
\* then spaces at both ends. (No volume indicator or parenthesised year can
\* occur.)
BuildSearchQuery(series_name) ==
    RStrip(DropLeadingSpaces(RStrip(series_name, {"-"})), {" "})

\* extract_year_from_name: neither pattern matches a name of the alphabet
ExtractYearFromName(name) == NoYear

(***************************************************************************)
(* SeriesMatcher                                                           *)
(***************************************************************************)
NoBook == [series |-> <<>>, number |-> <<>>, volume |-> <<>>, year |-> <<>>,
           format_type |-> <<>>, cv_volume_id |-> 0, cv_issue_id |-> 0,
           confidence |-> -1]

\* _find_volume lines 97-115
TargetYearOf(parsed) ==
    LET hinted ==
          IF parsed.year_hint # <<>>
          THEN (IF IntOf(parsed.year_hint) # ValueError
                THEN IntOf(parsed.year_hint) ELSE NoYear)
          ELSE IF parsed.volume_hint # <<>>
          THEN (IF IntOf(parsed.volume_hint) # ValueError
                   /\ IntOf(parsed.volume_hint) > 1900
                THEN IntOf(parsed.volume_hint) ELSE NoYear)
          ELSE NoYear
    IN IF hinted # NoYear THEN hinted
       ELSE ExtractYearFromName(parsed.series_name)

\* _find_volume lines 117-127: the volume of the cached mapping, if the
\* mapping names a positive id and the volume row is there
CachedVolume(volumes, mapping, normalized_name, target_year, day) ==
    IF GetVolumeForSeries(mapping, normalized_name, target_year, day) > 0
    THEN GetVolume(volumes,
                   GetVolumeForSeries(mapping, normalized_name, target_year, day),
                   day)
    ELSE NoVolume

\* _find_volume from the cache check on, given what the cache holds
\* (`cached`), what the search returns if it succeeds (`found`), the volumes
\* table with these stored (`stored`) and the automatic winner (`best`).
\* `outcome` is what the search call does if it is made and `choice` what
\* the user enters at the prompt if it is shown.
FindVolumeResult(cached, found, stored, best, volumes, mapping, normalized_name, day, prompt, outcome, choice) ==
    IF cached # NoVolume
    THEN [volume |-> cached, volumes |-> volumes, mapping |-> mapping,
          searched |-> FALSE, raised |-> "none"]
    ELSE IF outcome # "ok"
    THEN [volume |-> NoVolume, volumes |-> volumes, mapping |-> mapping,
          searched |-> TRUE, raised |-> outcome]
    ELSE IF found = <<>>
    THEN [volume |-> NoVolume, volumes |-> volumes, mapping |-> mapping,
          searched |-> TRUE, raised |-> "none"]
    ELSE IF best # NoVolume
    THEN [volume |-> best, volumes |-> stored,
          mapping |-> PutMapping(mapping, normalized_name, best.start_year,
                                 best.cv_volume_id, 10, day),
          searched |-> TRUE, raised |-> "none"]
    ELSE IF prompt /\ choice \in 1..Len(found)
    THEN [volume |-> found[choice], volumes |-> stored,
          mapping |-> PutMapping(mapping, normalized_name,
                                 found[choice].start_year,
                                 found[choice].cv_volume_id, 9, day),
          searched |-> TRUE, raised |-> "none"]
    ELSE [volume |-> NoVolume, volumes |-> stored, mapping |-> mapping,
          searched |-> TRUE, raised |-> "none"]

\* _find_volume once the target year and the search result are known
FindVolumeAt(volumes, mapping, normalized_name, target_year, found, day, prompt, outcome, choice) ==
    FindVolumeResult(
        CachedVolume(volumes, mapping, normalized_name, target_year, day),
        found,
        PutVolumes(volumes, found, day),
        SelectBestVolume(found, normalized_name, target_year),
        volumes, mapping, normalized_name, day, prompt, outcome, choice)

\* _find_volume
FindVolume(volumes, mapping, normalized_name, parsed, day, prompt, outcome, choice) ==
    FindVolumeAt(volumes, mapping, normalized_name, TargetYearOf(parsed),
                 SearchVolumes(BuildSearchQuery(parsed.series_name)), day,
                 prompt, outcome, choice)

\* {i.issue_number: i for i in issues}.get(issue_number): the last issue of
\* the list with that number
RECURSIVE IssueMapGet(_, _)
IssueMapGet(issues, issue_number) ==
    IF issues = <<>> THEN NoIssue
    ELSE IF issues[Len(issues)].issue_number = issue_number
    THEN issues[Len(issues)]
    ELSE IssueMapGet(SubSeq(issues, 1, Len(issues) - 1), issue_number)

\* _find_issue, given the persistent cache's answer (`cached`), the memo's
\* (`remembered`), and what get_volume_issues returns if it succeeds (`got`).
\* `outcome` is what get_volume_issues does if it is called.
FindIssueResult(cached, remembered, got, stored, issues, lookup, memo, vid, issue_number, outcome) ==
    IF cached # NoIssue
    THEN [issue |-> cached, issues |-> issues, lookup |-> lookup,
          memo |-> memo, fetched |-> FALSE, raised |-> "none"]
    ELSE IF remembered # NoIssue
    THEN [issue |-> remembered, issues |-> issues, lookup |-> lookup,
          memo |-> memo, fetched |-> FALSE, raised |-> "none"]
    ELSE IF outcome # "ok"
    THEN [issue |-> NoIssue, issues |-> issues, lookup |-> lookup,
          memo |-> memo, fetched |-> TRUE, raised |-> outcome]
    ELSE [issue |-> IssueMapGet(got, issue_number),
          issues |-> stored.issues, lookup |-> stored.lookup,
          memo |-> [memo EXCEPT ![vid] = [present |-> TRUE, issues |-> got]],
          fetched |-> TRUE, raised |-> "none"]

\* _find_issue. `memo` is _volume_issues_cache.
FindIssue(issues, lookup, memo, volume, issue_number, day, outcome) ==
    FindIssueResult(
        GetIssue(issues, lookup, volume.cv_volume_id, issue_number, day),
        IF memo[volume.cv_volume_id].present
        THEN IssueMapGet(memo[volume.cv_volume_id].issues, issue_number)
        ELSE NoIssue,
        GetVolumeIssues(volume.cv_volume_id),
        PutIssues([issues |-> issues, lookup |-> lookup],
                  GetVolumeIssues(volume.cv_volume_id), day),
        issues, lookup, memo, volume.cv_volume_id, issue_number, outcome)

\* match_issue lines 78-91
BuildBook(parsed, volume, issue) ==
    [series |-> volume.name,
     number |-> parsed.issue_number,
     volume |-> StrOf(volume.start_year),
     year |-> IF issue.cover_date # <<>> /\ Len(issue.cover_date) >= 4
              THEN SubSeq(issue.cover_date, 1, 4)
              ELSE StrOf(volume.start_year),
     format_type |-> parsed.format_type,
     cv_volume_id |-> volume.cv_volume_id,
     cv_issue_id |-> issue.cv_issue_id,
     confidence |-> 10]

\* match_issue after _find_issue
MatchIssueResult(parsed, fv, fi) ==
    [book |-> IF fi.issue = NoIssue THEN NoBook
              ELSE BuildBook(parsed, fv.volume, fi.issue),
     volume |-> fv.volume, volumes |-> fv.volumes, mapping |-> fv.mapping,
     issues |-> fi.issues, lookup |-> fi.lookup, memo |-> fi.memo,
     searched |-> fv.searched,
     fetched |-> IF fi.fetched THEN fv.volume.cv_volume_id ELSE NoId,
     raised |-> fi.raised]

\* match_issue after _find_volume
MatchIssueIn(parsed, fv, issues, lookup, memo, day, fetch_outcome) ==
    IF fv.volume = NoVolume
    THEN [book |-> NoBook, volume |-> NoVolume, volumes |-> fv.volumes,
          mapping |-> fv.mapping, issues |-> issues, lookup |-> lookup,
          memo |-> memo, searched |-> fv.searched, fetched |-> NoId,
          raised |-> fv.raised]
    ELSE MatchIssueResult(parsed, fv,
             FindIssue(issues, lookup, memo, fv.volume, parsed.issue_number,
                       day, fetch_outcome))

\* match_issue: the result (NoBook for None), the cache and memo it leaves,
\* the catalog calls it made and the exception it raised, if any
MatchIssue(parsed, volumes, mapping, issues, lookup, memo, day, prompt, search_outcome, choice, fetch_outcome) ==
    MatchIssueIn(parsed,
                 FindVolume(volumes, mapping,
                            NormalizeSeriesName(parsed.series_name), parsed,
                            day, prompt, search_outcome, choice),
                 issues, lookup, memo, day, fetch_outcome)

(***************************************************************************)
(* The front ends: cmd_parse, cmd_batch and the GUI generation worker      *)
(***************************************************************************)
MaxIssues == 2      \* longest scraped reading order
MaxSources == 2     \* sources fetched, over all runs
MaxDays == 2        \* last day of the clock

\* The site: every reading order is a run of consecutive entries of Site.
\* The entries: a series the catalog knows, without hints, with a year hint,
\* with a year hint and an issue number the volume does not have, and with
\* a volume number; a series for which the search returns an unrelated
\* volume; a series the search finds nothing for.
Site ==
    <<[series_name |-> <<"A">>, issue_number |-> <<"1">>, volume_hint |-> <<>>,
       year_hint |-> StrOf(TargetYear + 1), format_type |-> <<>>],
      [series_name |-> <<"A">>, issue_number |-> <<"9">>, volume_hint |-> <<>>,
       year_hint |-> StrOf(TargetYear), format_type |-> <<"A">>],
      [series_name |-> <<"A">>, issue_number |-> <<"1">>, volume_hint |-> <<>>,
       year_hint |-> <<>>, format_type |-> <<>>],
      [series_name |-> <<"b">>, issue_number |-> <<"1">>, volume_hint |-> <<>>,
       year_hint |-> <<>>, format_type |-> <<>>],
      [series_name |-> <<"A", "-">>, issue_number |-> <<"2">>,
       volume_hint |-> <<"2">>, year_hint |-> <<>>, format_type |-> <<>>],
      [series_name |-> <<"a", "b">>, issue_number |-> <<"1">>,
       volume_hint |-> <<>>, year_hint |-> <<"b">>, format_type |-> <<>>]>>

EmptyMemo == [v \in VolIds |-> [present |-> FALSE, issues |-> <<>>]]

\* The placeholder of an unmatched issue (cli.py lines 241-248)
UnmatchedBook(parsed) ==
    [series |-> parsed.series_name,
     number |-> parsed.issue_number,
     volume |-> IF parsed.volume_hint # <<>> THEN parsed.volume_hint
                ELSE IF parsed.year_hint # <<>> THEN parsed.year_hint
                ELSE <<"0">>,
     year |-> IF parsed.year_hint # <<>> THEN parsed.year_hint ELSE <<"0">>,
     format_type |-> parsed.format_type,
     cv_volume_id |-> 0, cv_issue_id |-> 0,
     confidence |-> 0]

\* The loop body without the placeholder: unmatched issues are skipped
AppendBookMatchedOnly(books, matched, parsed) ==
    IF matched # NoBook THEN Append(books, matched) ELSE books

\* The loop body: `if matched: all_books.append(matched)`, else the
\* placeholder is appended
AppendBook(books, matched, parsed) ==
    IF matched # NoBook THEN Append(books, matched)
    ELSE Append(books, UnmatchedBook(parsed))

\* Exceptions the per-source try block of a front end catches: cmd_parse
\* has none around its loop; cmd_batch and _generate_thread catch
\* requests.RequestException, ValueError and OSError.
Caught(kind) ==
    IF kind = "parse" THEN {} ELSE {"RequestException", "ValueError", "OSError"}

MInit ==
    /\ today = 0
    /\ cache_volumes = {}
    /\ cache_issues = {}
    /\ cache_lookup = {}
    /\ cache_mapping = {}
    /\ m_pc = "idle"
    /\ run_kind = "none"
    /\ interactive = FALSE
    /\ urls_left = 0
    /\ sources = 0
    /\ volume_issues_cache = EmptyMemo
    /\ parsed_issues = <<>>
    /\ idx = 1
    /\ all_books = <<>>
    /\ match_results = <<>>
    /\ last_searched = FALSE
    /\ last_volume = NoVolume
    /\ fetch_calls = [v \in VolIds |-> 0]
    /\ last_exit = "none"

\* A new SeriesMatcher and, with it, a new run of `kind` over n sources.
StartRun(kind, n, prompt) ==
    /\ m_pc = "idle"
    /\ sources + n <= MaxSources
    /\ run_kind' = kind
    /\ interactive' = prompt
    /\ urls_left' = n
    /\ m_pc' = IF n = 0 THEN "idle" ELSE "source"
    /\ volume_issues_cache' = EmptyMemo
    /\ fetch_calls' = [v \in VolIds |-> 0]
    /\ parsed_issues' = <<>>
    /\ idx' = 1
    /\ all_books' = <<>>
    /\ match_results' = <<>>
    /\ last_searched' = FALSE
    /\ last_volume' = NoVolume
    /\ last_exit' = IF n = 0 THEN "done" ELSE "running"
    /\ cancelled' = FALSE
    /\ after_cancel' = 0
    /\ UNCHANGED <<sources, cacheVars, rlVars, sbVars, xVars>>

\* cmd_parse: one URL
StartParse == \E prompt \in BOOLEAN : StartRun("parse", 1, prompt)

\* cmd_batch: the URLs of the file, possibly none
StartBatch == \E n \in 0..MaxSources, prompt \in BOOLEAN :
                 StartRun("batch", n, prompt)

\* _generate_thread: the selected orders, at least one, never interactive
StartGui == \E n \in 1..MaxSources : StartRun("gui", n, FALSE)

\* The lists of the source being processed are dropped.
ClearSource ==
    /\ parsed_issues' = <<>>
    /\ idx' = 1
    /\ all_books' = <<>>
    /\ match_results' = <<>>

\* The run is over and its process state, the matcher included, is gone:
\* the function returned, sys.exit(1) was called, or an exception that no
\* handler catches ended it.
EndRun(how) ==
    /\ m_pc' = "idle"
    /\ last_exit' = how
    /\ urls_left' = 0
    /\ run_kind' = "none"
    /\ interactive' = FALSE
    /\ volume_issues_cache' = EmptyMemo
    /\ fetch_calls' = [v \in VolIds |-> 0]
    /\ last_searched' = FALSE
    /\ last_volume' = NoVolume
    /\ ClearSource

\* The matcher's state after the step is `memo`, with the history `calls`,
\* `searched` and `volume`.
KeepMatcher(memo, calls, searched, volume) ==
    /\ volume_issues_cache' = memo
    /\ fetch_calls' = calls
    /\ last_searched' = searched
    /\ last_volume' = volume
    /\ UNCHANGED <<run_kind, interactive>>

SameMatcher ==
    KeepMatcher(volume_issues_cache, fetch_calls, last_searched, last_volume)

\* The current source is finished: on to the next one, or the run ends.
NextSource(memo, calls, searched, volume) ==
    IF urls_left = 1 THEN EndRun("done")
    ELSE /\ urls_left' = urls_left - 1
         /\ m_pc' = "source"
         /\ ClearSource
         /\ KeepMatcher(memo, calls, searched, volume)
         /\ UNCHANGED last_exit

\* scraper.fetch_reading_order(url): a list of parsed issues, or an error
FetchReadingOrder ==
    /\ m_pc = "source"
    /\ ~(run_kind = "gui" /\ cancelled)
    /\ sources' = sources + 1
    /\ \/ /\ \E n \in 0..MaxIssues : \E first \in 1..(Len(Site) - n + 1) :
                parsed_issues' = SubSeq(Site, first, first + n - 1)
          /\ m_pc' = "loop"
          /\ idx' = 1
          /\ all_books' = <<>>
          /\ match_results' = <<>>
          /\ SameMatcher
          /\ UNCHANGED <<urls_left, last_exit>>
       \/ \E e \in {"RequestException", "ValueError"} :
             IF e \in Caught(run_kind)
             THEN NextSource(volume_issues_cache, fetch_calls, last_searched,
                             last_volume)
             ELSE EndRun("exit1")
    /\ UNCHANGED <<cacheVars, rlVars, sbVars, xVars, guiVars>>

\* What the calls of the next match_issue can do: a call that is not made
\* has no outcome, a prompt that is not shown gets no answer.
Try(search_outcome, choice, fetch_outcome) ==
    MatchIssue(parsed_issues[idx], cache_volumes, cache_mapping, cache_issues,
               cache_lookup, volume_issues_cache, today, interactive,
               search_outcome, choice, fetch_outcome)
TryFindVolume(search_outcome, choice) ==
    FindVolume(cache_volumes, cache_mapping,
               NormalizeSeriesName(parsed_issues[idx].series_name),
               parsed_issues[idx], today, interactive, search_outcome, choice)
SearchOutcomes ==
    IF TryFindVolume("ok", 0).searched THEN CallOutcomes ELSE {"ok"}
Choices ==
    IF interactive /\ TryFindVolume("ok", 0).searched
    THEN 0..MaxCands ELSE {0}
FetchOutcomes(search_outcome, choice) ==
    IF Try(search_outcome, choice, "ok").fetched # NoId
    THEN CallOutcomes ELSE {"ok"}

\* The loop body after match_issue has returned or raised (`r`).
MatchLoopStep(parsed, r, calls) ==
    /\ cache_volumes' = r.volumes
    /\ cache_mapping' = r.mapping
    /\ cache_issues' = r.issues
    /\ cache_lookup' = r.lookup
    /\ IF r.raised = "none"
       THEN /\ all_books' = AppendBook(all_books, r.book, parsed)
            /\ match_results' = Append(match_results, r.book)
            /\ idx' = idx + 1
            /\ KeepMatcher(r.memo, calls, r.searched, r.volume)
            /\ UNCHANGED <<m_pc, urls_left, parsed_issues, last_exit>>
       ELSE IF r.raised \in Caught(run_kind)
       THEN NextSource(r.memo, calls, r.searched, r.volume)
       ELSE EndRun("crashed")

\* get_volume_issues calls so far, after a match_issue that fetched the
\* issues of volume `fetched` (NoId: none)
CountFetch(fetched) ==
    IF fetched # NoId THEN [fetch_calls EXCEPT ![fetched] = @ + 1]
    ELSE fetch_calls

\* One pass of `for parsed in parsed_issues`: match_issue, then the book or
\* the placeholder is appended. An exception of a catalog call leaves the
\* loop: to the handler of the source if there is one, else out of the run.
MatchLoop ==
    /\ m_pc = "loop"
    /\ idx <= Len(parsed_issues)
    /\ \E search_outcome \in SearchOutcomes, choice \in Choices :
       \E fetch_outcome \in FetchOutcomes(search_outcome, choice) :
       \E r \in {Try(search_outcome, choice, fetch_outcome)} :
          MatchLoopStep(parsed_issues[idx], r, CountFetch(r.fetched))
    /\ after_cancel' = IF cancelled THEN after_cancel + 1 ELSE after_cancel
    /\ UNCHANGED <<today, sources, cancelled, rlVars, sbVars, xVars>>

\* After the loop: cmd_parse returns here if args.dry_run is set; otherwise
\* the ReadingList of all_books is handed to writer.write.
WriteList ==
    /\ m_pc = "loop"
    /\ idx > Len(parsed_issues)
    /\ \E dry_run \in (IF run_kind = "parse" THEN BOOLEAN ELSE {FALSE}) :
       IF dry_run
       THEN EndRun("done")
       ELSE /\ m_pc' = "written"
            /\ SameMatcher
            /\ UNCHANGED <<urls_left, parsed_issues, idx, all_books,
                           match_results, last_exit>>
    /\ UNCHANGED <<sources, cacheVars, rlVars, sbVars, xVars, guiVars>>

\* writer.write returns, or raises OSError
WriteReturn ==
    /\ m_pc = "written"
    /\ \E outcome \in {"ok", "OSError"} :
          IF outcome = "ok" \/ outcome \in Caught(run_kind)
          THEN NextSource(volume_issues_cache, fetch_calls, last_searched,
                          last_volume)
          ELSE EndRun("crashed")
    /\ UNCHANGED <<sources, cacheVars, rlVars, sbVars, xVars, guiVars>>

\* Midnight
AdvanceDay ==
    /\ today < MaxDays
    /\ today' = today + 1
    /\ UNCHANGED <<cache_volumes, cache_issues, cache_lookup, cache_mapping,
                   runVars, rlVars, sbVars, xVars, guiVars>>

\* ProgressDialog._on_cancel, or the shutdown event is set, while the
\* generation thread runs
Cancel ==
    /\ run_kind = "gui"
    /\ m_pc # "idle"
    /\ ~cancelled
    /\ cancelled' = TRUE
    /\ UNCHANGED <<after_cancel, mVars, rlVars, sbVars, xVars>>

\* _generate_thread line 472: the flag is seen at the top of the loop over
\* the orders, and the loop is left
BreakOnCancel ==
    /\ m_pc = "source"
    /\ run_kind = "gui"
    /\ cancelled
    /\ EndRun("cancelled")
    /\ UNCHANGED <<sources, cacheVars, rlVars, sbVars, xVars, guiVars>>

\* The generation thread and the Cancel button
GNext ==
    \/ StartGui
    \/ Cancel
    \/ BreakOnCancel
    \/ FetchReadingOrder
    \/ MatchLoop
    \/ WriteList
    \/ WriteReturn

\* No cancellation asked for
NotCancelled ==
    /\ cancelled = FALSE
    /\ after_cancel = 0

MNext ==
    \/ StartParse
    \/ StartBatch
    \/ StartGui
    \/ FetchReadingOrder
    \/ MatchLoop
    \/ WriteList
    \/ WriteReturn
    \/ AdvanceDay

\* The variables of the front ends and the cache while none is modelled.
MIdle ==
    /\ today = 0
    /\ cache_volumes = {}
    /\ cache_issues = {}
    /\ cache_lookup = {}
    /\ cache_mapping = {}
    /\ m_pc = "off"
    /\ run_kind = "none"
    /\ interactive = FALSE
    /\ urls_left = 0
    /\ sources = 0
    /\ volume_issues_cache = EmptyMemo
    /\ parsed_issues = <<>>
    /\ idx = 1
    /\ all_books = <<>>
    /\ match_results = <<>>
    /\ last_searched = FALSE
    /\ last_volume = NoVolume
    /\ fetch_calls = [v \in VolIds |-> 0]
    /\ last_exit = "none"

(***************************************************************************)
(* SQLiteCache operations, called one after another on one database while  *)
(* the days pass. The tables cache_* are what is committed: what any other *)
(* connection reads.                                                       *)
(***************************************************************************)
MaxOps == 2         \* cache operations called in one behaviour

\* Issues to cache: two issues of volume 1, an issue with a new id under
\* the number of the first, and the first under a new number
I13 == [cv_issue_id |-> 13, cv_volume_id |-> 1, issue_number |-> <<"1">>,
        cover_date |-> <<>>]
I11Renumbered == [I11 EXCEPT !.issue_number = <<"2">>]
IssueFeed == <<I11, I13, I12, I11Renumbered, I11>>

\* The text SQLite stores for CURRENT_TIMESTAMP on day d ("YYYY-MM-DD
\* HH:MM:SS") and the text of datetime.isoformat() ("YYYY-MM-DDTHH:MM:SS"):
\* the date, then the separator
SqlTimestamp(d) == <<d, " ">>
IsoFormat(d) == <<d, "T">>

\* The order of the two separators as characters
CharRank(c) == IF c = " " THEN 0 ELSE 1

\* a < b on these texts, as SQLite compares TEXT values
TextLess(a, b) ==
    \/ a[1] < b[1]
    \/ a[1] = b[1] /\ CharRank(a[2]) < CharRank(b[2])

\* clear_expired's test `cached_at < cutoff` on day `day`
BeforeCutoff(cached_at, day) ==
    TextLess(SqlTimestamp(cached_at), IsoFormat(day - ExpiryDays))

COInit ==
    /\ tx_pc = "idle"
    /\ tx_issues = {}
    /\ tx_lookup = {}
    /\ tx_todo = <<>>
    /\ tx_before = [issues |-> {}, lookup |-> {}]
    /\ ce_result = -1
    /\ ce_deleted = -1
    /\ co_ops = 0

\* The variables of the direct cache operations while none is modelled.
COIdle ==
    /\ tx_pc = "off"
    /\ tx_issues = {}
    /\ tx_lookup = {}
    /\ tx_todo = <<>>
    /\ tx_before = [issues |-> {}, lookup |-> {}]
    /\ ce_result = -1
    /\ ce_deleted = -1
    /\ co_ops = 0

\* An operation may be called: none is in progress.
CanCall ==
    /\ tx_pc = "idle"
    /\ co_ops < MaxOps
    /\ co_ops' = co_ops + 1

\* cache_volume(volume)
CacheVolume ==
    /\ CanCall
    /\ \E vol \in {V1, V2} : cache_volumes' = PutVolume(cache_volumes, vol, today)
    /\ UNCHANGED <<today, cache_issues, cache_lookup, cache_mapping, tx_pc,
                   tx_issues, tx_lookup, tx_todo, tx_before, ce_result,
                   ce_deleted, runVars, rlVars, sbVars, pgVars, bkVars, guiVars, zVars>>

\* cache_series_mapping(normalized_name, start_year, cv_volume_id, confidence)
CacheSeriesMapping ==
    /\ CanCall
    /\ \E vol \in {V1, V2}, confidence \in {5, 10} :
          cache_mapping' = PutMapping(cache_mapping, <<"a">>, vol.start_year,
                                      vol.cv_volume_id, confidence, today)
    /\ UNCHANGED <<today, cache_volumes, cache_issues, cache_lookup, tx_pc,
                   tx_issues, tx_lookup, tx_todo, tx_before, ce_result,
                   ce_deleted, runVars, rlVars, sbVars, pgVars, bkVars, guiVars, zVars>>

\* cache_issue(issue): both rows in one transaction
CacheIssue ==
    /\ CanCall
    /\ \E i \in 1..Len(IssueFeed) :
       \E t \in {PutIssue([issues |-> cache_issues, lookup |-> cache_lookup], IssueFeed[i], today)} :
          /\ cache_issues' = t.issues
          /\ cache_lookup' = t.lookup
    /\ UNCHANGED <<today, cache_volumes, cache_mapping, tx_pc, tx_issues,
                   tx_lookup, tx_todo, tx_before, ce_result, ce_deleted,
                   runVars, rlVars, sbVars, pgVars, bkVars, guiVars, zVars>>

\* _get_connection's except branch: conn.rollback() discards what the
\* transaction wrote
RollbackKeepsWrites(committed, working) == working
Rollback(committed, working) == committed

\* cache_volume_issues(issues), entering the with block
CacheVolumeIssues ==
    /\ CanCall
    /\ \E first \in 1..Len(IssueFeed), n \in 0..MaxIssues :
          /\ first + n - 1 <= Len(IssueFeed)
          /\ tx_todo' = SubSeq(IssueFeed, first, first + n - 1)
    /\ tx_pc' = "open"
    /\ tx_issues' = cache_issues
    /\ tx_lookup' = cache_lookup
    /\ tx_before' = [issues |-> cache_issues, lookup |-> cache_lookup]
    /\ UNCHANGED <<cacheVars, ce_result, ce_deleted, runVars, rlVars, sbVars, pgVars, bkVars, guiVars, zVars>>

\* A turn of its loop, first statement: INSERT OR REPLACE INTO issues
TxWriteIssue ==
    /\ tx_pc = "open"
    /\ tx_todo # <<>>
    /\ tx_issues' = PutIssueRow(tx_issues, Head(tx_todo), today)
    /\ tx_pc' = "lookup"
    /\ UNCHANGED <<cacheVars, tx_lookup, tx_todo, tx_before, ce_result,
                   ce_deleted, co_ops, runVars, rlVars, sbVars, pgVars, bkVars, guiVars, zVars>>

\* Second statement: INSERT OR REPLACE INTO issue_lookup
TxWriteLookup ==
    /\ tx_pc = "lookup"
    /\ tx_lookup' = PutLookupRow(tx_lookup, Head(tx_todo))
    /\ tx_todo' = Tail(tx_todo)
    /\ tx_pc' = "open"
    /\ UNCHANGED <<cacheVars, tx_issues, tx_before, ce_result, ce_deleted,
                   co_ops, runVars, rlVars, sbVars, pgVars, bkVars, guiVars, zVars>>

\* The with block ends: conn.commit()
TxCommit ==
    /\ tx_pc = "open"
    /\ tx_todo = <<>>
    /\ cache_issues' = tx_issues
    /\ cache_lookup' = tx_lookup
    /\ tx_pc' = "idle"
    /\ UNCHANGED <<today, cache_volumes, cache_mapping, tx_issues, tx_lookup,
                   tx_todo, tx_before, ce_result, ce_deleted, co_ops, runVars,
                   rlVars, sbVars, pgVars, bkVars, guiVars, zVars>>

\* A statement of the block raises: rollback, and the exception goes on
TxRaise ==
    /\ tx_pc \in {"open", "lookup"}
    /\ \E t \in {Rollback([issues |-> cache_issues, lookup |-> cache_lookup], [issues |-> tx_issues, lookup |-> tx_lookup])} :
          /\ cache_issues' = t.issues
          /\ cache_lookup' = t.lookup
    /\ tx_pc' = "raised"
    /\ UNCHANGED <<today, cache_volumes, cache_mapping, tx_issues, tx_lookup,
                   tx_todo, tx_before, ce_result, ce_deleted, co_ops, runVars,
                   rlVars, sbVars, pgVars, bkVars, guiVars, zVars>>

\* The caller has the exception
TxRaised ==
    /\ tx_pc = "raised"
    /\ tx_pc' = "idle"
    /\ UNCHANGED <<cacheVars, tx_issues, tx_lookup, tx_todo, tx_before,
                   ce_result, ce_deleted, co_ops, runVars, rlVars, sbVars, pgVars, bkVars, guiVars, zVars>>

\* clear_expired's four DELETEs
ExpiredRows(rows, day) == {r \in rows : BeforeCutoff(r.cached_at, day)}

OrphanLookups(lookup, issues) ==
    {l \in lookup : ~\E r \in issues : r.issue.cv_issue_id = l.cv_issue_id}

\* clear_expired's return value: the rowcounts it adds up
Removed(volumes, issues, mapping, day) ==
    Cardinality(ExpiredRows(volumes, day))
        + Cardinality(ExpiredRows(issues, day))
        + Cardinality(ExpiredRows(mapping, day))

\* clear_expired()
ClearExpired ==
    /\ CanCall
    /\ cache_volumes' = cache_volumes \ ExpiredRows(cache_volumes, today)
    /\ cache_issues' = cache_issues \ ExpiredRows(cache_issues, today)
    /\ cache_mapping' = cache_mapping \ ExpiredRows(cache_mapping, today)
    /\ cache_lookup' = cache_lookup \ OrphanLookups(cache_lookup, cache_issues')
    /\ ce_result' = Removed(cache_volumes, cache_issues, cache_mapping, today)
    /\ ce_deleted' = Cardinality(cache_volumes \ cache_volumes')
                        + Cardinality(cache_issues \ cache_issues')
                        + Cardinality(cache_mapping \ cache_mapping')
                        + Cardinality(cache_lookup \ cache_lookup')
    /\ UNCHANGED <<today, tx_pc, tx_issues, tx_lookup, tx_todo, tx_before,
                   runVars, rlVars, sbVars, pgVars, bkVars, guiVars, zVars>>

CNext ==
    \/ CacheVolume
    \/ CacheSeriesMapping
    \/ CacheIssue
    \/ CacheVolumeIssues
    \/ TxWriteIssue
    \/ TxWriteLookup
    \/ TxCommit
    \/ TxRaise
    \/ TxRaised
    \/ ClearExpired
    \/ AdvanceDay

(***************************************************************************)
(* ComicVineClient.get_volume_issues over a catalog that reports pg_total  *)
(* issues for the volume and serves them in pages. An issue is its         *)
(* position in the catalog's order.                                        *)
(***************************************************************************)
MaxTotal == 250     \* largest number_of_total_results
PageLimit == 100    \* "limit": 100 and offset + 100

Min(a, b) == IF a <= b THEN a ELSE b

\* The "results" of the request at `offset`
Page(total, offset) ==
    [i \in 1..Min(PageLimit, Max(0, total - offset)) |-> offset + i]

\* line 205: another page is asked for
MorePagesInclusive(offset, n, total) == offset + n <= total
MorePages(offset, n, total) == offset + n < total

PGInit ==
    /\ pg_total \in 0..MaxTotal
    /\ pg_pc = "ready"
    /\ pg_stack = <<>>
    /\ pg_requests = 0
    /\ pg_result = <<>>

\* The variables of get_volume_issues while it is not modelled.
PGIdle ==
    /\ pg_total = 0
    /\ pg_pc = "off"
    /\ pg_stack = <<>>
    /\ pg_requests = 0
    /\ pg_result = <<>>

\* A new activation at `offset`, about to call _make_request
Frame(offset) == [offset |-> offset, issues |-> <<>>, pc |-> "request"]

\* The stack with its innermost activation changed to `frame`
WithTop(stack, frame) == [stack EXCEPT ![Len(stack)] = frame]

\* get_volume_issues(volume_id) is called
PageCall ==
    /\ pg_pc = "ready"
    /\ pg_pc' = "running"
    /\ pg_stack' = <<Frame(0)>>
    /\ UNCHANGED <<pg_total, pg_requests, pg_result, rlVars, sbVars, mVars,
                   coVars, bkVars, guiVars, zVars>>

\* Lines 180-206 of the innermost activation: the request, the results
\* made issues, and the recursive call when more are reported
PageRequest ==
    /\ pg_pc = "running"
    /\ pg_stack[Len(pg_stack)].pc = "request"
    /\ pg_requests' = pg_requests + 1
    /\ \E top \in {pg_stack[Len(pg_stack)]} :
       \E issues \in {Page(pg_total, top.offset)} :
          pg_stack' =
            IF MorePages(top.offset, Len(issues), pg_total)
            THEN Append(WithTop(pg_stack, [top EXCEPT !.issues = issues, !.pc = "extend"]),
                        Frame(top.offset + PageLimit))
            ELSE WithTop(pg_stack, [top EXCEPT !.issues = issues, !.pc = "return"])
    /\ UNCHANGED <<pg_total, pg_pc, pg_result, rlVars, sbVars, mVars, coVars, bkVars, guiVars, zVars>>

\* _make_request raises: the exception leaves every activation
PageRaise ==
    /\ pg_pc = "running"
    /\ pg_stack[Len(pg_stack)].pc = "request"
    /\ pg_requests' = pg_requests + 1
    /\ pg_stack' = <<>>
    /\ pg_pc' = "raised"
    /\ UNCHANGED <<pg_total, pg_result, rlVars, sbVars, mVars, coVars, bkVars, guiVars, zVars>>

\* Line 208: the innermost activation returns its list, which its caller
\* appends to its own (issues.extend) before returning in turn
PageReturn ==
    /\ pg_pc = "running"
    /\ pg_stack[Len(pg_stack)].pc = "return"
    /\ \E top \in {pg_stack[Len(pg_stack)]} :
          IF Len(pg_stack) = 1
          THEN /\ pg_stack' = <<>>
               /\ pg_result' = top.issues
               /\ pg_pc' = "returned"
          ELSE /\ \E caller \in {pg_stack[Len(pg_stack) - 1]} :
                     pg_stack' = WithTop(SubSeq(pg_stack, 1, Len(pg_stack) - 1),
                                         [caller EXCEPT !.issues = caller.issues \o top.issues,
                                                        !.pc = "return"])
               /\ UNCHANGED <<pg_result, pg_pc>>
    /\ UNCHANGED <<pg_total, pg_requests, rlVars, sbVars, mVars, coVars, bkVars, guiVars, zVars>>

PNext ==
    \/ PageCall
    \/ PageRequest
    \/ PageRaise
    \/ PageReturn

(***************************************************************************)
(* match_issue step 4 for any cover date the catalog may hold: the issue   *)
(* found is issue 11 with that cover date.                                 *)
(***************************************************************************)
MaxDate == 5        \* longest cover date

DateChars == {"2", "0", "-", "b"}

\* The strings over DateChars of length at most n
RECURSIVE DatesUpTo(_)
DatesUpTo(n) ==
    IF n = 0 THEN {<<>>}
    ELSE DatesUpTo(n - 1)
           \cup {Append(d, c) : d \in {e \in DatesUpTo(n - 1) : Len(e) = n - 1},
                                c \in DateChars}

BKInit ==
    /\ bk_pc = "ready"
    /\ bk_volume \in {V1, V2}
    /\ \E d \in DatesUpTo(MaxDate) : bk_issue = [I11 EXCEPT !.cover_date = d]
    /\ bk_book = NoBook

\* The variables of this step while it is not modelled on its own.
BKIdle ==
    /\ bk_pc = "off"
    /\ bk_volume = NoVolume
    /\ bk_issue = NoIssue
    /\ bk_book = NoBook

\* match_issue lines 78-91 on the volume and issue found
BuildMatchedBook ==
    /\ bk_pc = "ready"
    /\ bk_book' = BuildBook(Site[1], bk_volume, bk_issue)
    /\ bk_pc' = "built"
    /\ UNCHANGED <<bk_volume, bk_issue, rlVars, sbVars, mVars, coVars, pgVars, guiVars, zVars>>

(***************************************************************************)
(* CBLWriter.write followed by CBLReader.read of the file. A text is a     *)
(* sequence of characters; an optional text is a record saying whether it  *)
(* is there (None is [present |-> FALSE]).                                 *)
(***************************************************************************)
MaxText == 3        \* longest list name
MaxBooks == 2       \* most books in a list

TextChars == {"a", " ", "\t", "\n"}

\* The texts over TextChars of length at most n
RECURSIVE TextsUpTo(_)
TextsUpTo(n) ==
    IF n = 0 THEN {<<>>}
    ELSE TextsUpTo(n - 1)
           \cup {Append(d, c) : d \in {e \in TextsUpTo(n - 1) : Len(e) = n - 1},
                                c \in TextChars}

None == [present |-> FALSE, text |-> <<>>]
Some(text) == [present |-> TRUE, text |-> text]

\* Books to write: one of an annual, one without a format, one whose
\* format is the empty string, one with a tab in its series
BookPool ==
    {[series |-> <<"a">>, number |-> <<"1">>, volume |-> StrOf(TargetYear),
      year |-> StrOf(TargetYear), format_type |-> Some(<<"a">>), book_id |-> <<"a">>],
     [series |-> <<"a">>, number |-> <<"2">>, volume |-> StrOf(TargetYear),
      year |-> StrOf(TargetYear), format_type |-> None, book_id |-> <<"a", "a">>],
     [series |-> <<"a">>, number |-> <<"3">>, volume |-> StrOf(TargetYear),
      year |-> StrOf(TargetYear), format_type |-> Some(<<>>), book_id |-> <<>>],
     [series |-> <<"a", "\t", "a">>, number |-> <<>>, volume |-> StrOf(TargetYear),
      year |-> StrOf(TargetYear), format_type |-> None, book_id |-> <<"a">>]}

\* The lists of at most n books of the pool
RECURSIVE BookLists(_)
BookLists(n) ==
    IF n = 0 THEN {<<>>}
    ELSE BookLists(n - 1)
           \cup {Append(l, b) : l \in {k \in BookLists(n - 1) : Len(k) = n - 1},
                                b \in BookPool}

\* str.strip() leaves nothing of the line
IsBlank(line) == \A i \in 1..Len(line) : line[i] \in {" ", "\t", "\n"}

\* text.split("\n")
RECURSIVE SplitLines(_, _)
SplitLines(text, line) ==
    IF text = <<>> THEN <<line>>
    ELSE IF Head(text) = "\n" THEN <<line>> \o SplitLines(Tail(text), <<>>)
    ELSE SplitLines(Tail(text), Append(line, Head(text)))

\* "\n".join(lines)
RECURSIVE JoinLines(_)
JoinLines(lines) ==
    IF Len(lines) = 1 THEN lines[1]
    ELSE lines[1] \o <<"\n">> \o JoinLines(Tail(lines))

\* The lines kept of those a value spreads over: the first and the last
\* share their lines with the markup around the value, and a line between
\* them is dropped when it is blank (_prettify lines 72-77)
RECURSIVE KeepLines(_, _)
KeepLines(lines, i) ==
    IF i > Len(lines) THEN <<>>
    ELSE IF i = 1 \/ i = Len(lines) \/ ~IsBlank(lines[i])
    THEN <<lines[i]>> \o KeepLines(lines, i + 1)
    ELSE KeepLines(lines, i + 1)

\* A value as _prettify leaves it in the file
Prettify(text) == JoinLines(KeepLines(SplitLines(text, <<>>), 1))

\* An attribute value as the parser hands it over: tabs and line ends in
\* it have become spaces
RECURSIVE AttributeValue(_)
AttributeValue(text) ==
    IF text = <<>> THEN <<>>
    ELSE <<IF Head(text) \in {"\t", "\n"} THEN " " ELSE Head(text)>>
           \o AttributeValue(Tail(text))

\* writer.py lines 34-45: the Book element of a book
BookElement(book) ==
    [Series |-> Prettify(book.series),
     Number |-> Prettify(book.number),
     Volume |-> Prettify(book.volume),
     Year |-> Prettify(book.year),
     Format |-> IF book.format_type.present /\ book.format_type.text # <<>>
                THEN Some(Prettify(book.format_type.text)) ELSE None,
     Id |-> Prettify(book.book_id)]

\* writer.py lines 22-57: the document written
WriteDocument(reading_list) ==
    [Name |-> Prettify(reading_list.name),
     Books |-> [i \in 1..Len(reading_list.books) |-> BookElement(reading_list.books[i])]]

\* reader.py lines 33-40: the book of a Book element
ReadBook(element) ==
    [series |-> AttributeValue(element.Series),
     number |-> AttributeValue(element.Number),
     volume |-> AttributeValue(element.Volume),
     year |-> AttributeValue(element.Year),
     format_type |-> IF element.Format.present
                     THEN Some(AttributeValue(element.Format.text)) ELSE None,
     book_id |-> element.Id]

\* reader.py lines 24-43
ReadDocument(document) ==
    [name |-> document.Name,
     books |-> [i \in 1..Len(document.Books) |-> ReadBook(document.Books[i])]]

NoList == [name |-> <<>>, books |-> <<>>]
NoDocument == [Name |-> <<>>, Books |-> <<>>]

CBLInit ==
    /\ cbl_pc = "ready"
    /\ \E name \in TextsUpTo(MaxText), books \in BookLists(MaxBooks) :
          cbl_list = [name |-> name, books |-> books]
    /\ cbl_file = NoDocument
    /\ cbl_read = NoList

\* The variables of the writer and reader while they are not modelled.
CBLIdle ==
    /\ cbl_pc = "off"
    /\ cbl_list = NoList
    /\ cbl_file = NoDocument
    /\ cbl_read = NoList

notCbl == <<rlVars, sbVars, mVars, coVars, pgVars, bkVars, guiVars, tmVars, cfgVars>>

\* CBLWriter.write(reading_list, output_path)
CblWrite ==
    /\ cbl_pc = "ready"
    /\ cbl_file' = WriteDocument(cbl_list)
    /\ cbl_pc' = "written"
    /\ UNCHANGED <<cbl_list, cbl_read, notCbl>>

\* CBLReader.read(file_path)
CblRead ==
    /\ cbl_pc = "written"
    /\ cbl_read' = ReadDocument(cbl_file)
    /\ cbl_pc' = "read"
    /\ UNCHANGED <<cbl_list, cbl_file, notCbl>>

CblNext ==
    \/ CblWrite
    \/ CblRead

(***************************************************************************)
(* ThreadManager: start_thread under distinct names, the threads' bodies,  *)
(* cleanup_completed and active_thread_names called from any thread, and   *)
(* shutdown. Each `with self._lock` block is one step.                     *)
(***************************************************************************)
NumNames == 2       \* thread names used

Names == 1..NumNames

\* thread.is_alive()
IsAlive(state) == state = "alive"

\* cleanup_completed lines 73-78
Completed(threads, state) == {n \in threads : ~IsAlive(state[n])}

\* self._shutdown_event.set()
EventNotSet(event) == event
EventSet(event) == TRUE

TMInit ==
    /\ tm_threads = {}
    /\ tm_state = [n \in Names |-> "none"]
    /\ tm_shutdown_event = FALSE
    /\ sd_pc = "idle"
    /\ q_pc = "idle"
    /\ q_names = {}

\* The variables of the thread manager while it is not modelled.
TMIdle ==
    /\ tm_threads = {}
    /\ tm_state = [n \in Names |-> "none"]
    /\ tm_shutdown_event = FALSE
    /\ sd_pc = "off"
    /\ q_pc = "off"
    /\ q_names = {}

notTm == <<rlVars, sbVars, mVars, coVars, pgVars, bkVars, guiVars, cblVars, cfgVars>>

\* start_thread lines 51-54: the Thread is made and put into _threads
StartThreadRegister(n) ==
    /\ tm_state[n] = "none"
    /\ tm_state' = [tm_state EXCEPT ![n] = "registered"]
    /\ tm_threads' = tm_threads \cup {n}
    /\ UNCHANGED <<tm_shutdown_event, sd_pc, q_pc, q_names, notTm>>

\* start_thread line 56: thread.start()
StartThreadStart(n) ==
    /\ tm_state[n] = "registered"
    /\ tm_state' = [tm_state EXCEPT ![n] = "alive"]
    /\ UNCHANGED <<tm_threads, tm_shutdown_event, sd_pc, q_pc, q_names, notTm>>

\* The target returns by itself
TargetReturns(n) ==
    /\ tm_state[n] = "alive"
    /\ tm_state' = [tm_state EXCEPT ![n] = "finished"]
    /\ UNCHANGED <<tm_threads, tm_shutdown_event, sd_pc, q_pc, q_names, notTm>>

\* The target polls the event, finds it set, and returns
TargetSeesShutdown(n) ==
    /\ tm_state[n] = "alive"
    /\ tm_shutdown_event
    /\ tm_state' = [tm_state EXCEPT ![n] = "exited"]
    /\ UNCHANGED <<tm_threads, tm_shutdown_event, sd_pc, q_pc, q_names, notTm>>

\* cleanup_completed() called from any thread
CleanupCompleted ==
    /\ tm_threads' = tm_threads \ Completed(tm_threads, tm_state)
    /\ UNCHANGED <<tm_state, tm_shutdown_event, sd_pc, q_pc, q_names, notTm>>

\* active_thread_names() line 67 (active_thread_count() line 61)
QueryCleanup ==
    /\ q_pc = "idle"
    /\ tm_threads' = tm_threads \ Completed(tm_threads, tm_state)
    /\ q_pc' = "cleaned"
    /\ UNCHANGED <<tm_state, tm_shutdown_event, sd_pc, q_names, notTm>>

\* active_thread_names() lines 68-69 (active_thread_count() lines 62-63
\* returns the length of the same dict)
QueryReturn ==
    /\ q_pc = "cleaned"
    /\ q_names' = tm_threads
    /\ q_pc' = "idle"
    /\ UNCHANGED <<tm_threads, tm_state, tm_shutdown_event, sd_pc, notTm>>

\* shutdown() lines 91-98: the event is set; with no thread tracked the
\* call returns
ShutdownCall ==
    /\ sd_pc = "idle"
    /\ tm_shutdown_event' = EventSet(tm_shutdown_event)
    /\ sd_pc' = IF tm_threads = {} THEN "done" ELSE "joining"
    /\ UNCHANGED <<tm_threads, tm_state, q_pc, q_names, notTm>>

\* shutdown() lines 100-105: the joins have returned, the threads ended or
\* the timeouts passed, and cleanup_completed() is called
ShutdownReturn ==
    /\ sd_pc = "joining"
    /\ tm_threads' = tm_threads \ Completed(tm_threads, tm_state)
    /\ sd_pc' = "done"
    /\ UNCHANGED <<tm_state, tm_shutdown_event, q_pc, q_names, notTm>>

TNext ==
    \/ \E n \in Names : StartThreadRegister(n)
    \/ \E n \in Names : StartThreadStart(n)
    \/ \E n \in Names : TargetReturns(n)
    \/ \E n \in Names : TargetSeesShutdown(n)
    \/ CleanupCompleted
    \/ QueryCleanup
    \/ QueryReturn
    \/ ShutdownCall
    \/ ShutdownReturn

(***************************************************************************)
(* get_config() called by several threads while another calls              *)
(* reset_config(). A Config instance is the number of its creation. The    *)
(* reads of the global outside the lock are steps of their own; a          *)
(* `with _config_lock` block is one step.                                  *)
(***************************************************************************)
NumGetters == 2     \* threads calling get_config
MaxGets == 2        \* calls of each
MaxResets == 1      \* reset_config calls

Getters == 1..NumGetters
NoConfig == 0       \* None
NotReturned == -1   \* no call has returned yet

CFGInit ==
    /\ cfg_config = NoConfig
    /\ cfg_made = 0
    /\ cfg_pc = [g \in Getters |-> "idle"]
    /\ cfg_result = [g \in Getters |-> NotReturned]
    /\ cfg_calls = [g \in Getters |-> 0]
    /\ cfg_resets = 0

\* The variables of the configuration while it is not modelled.
CFGIdle ==
    /\ cfg_config = NoConfig
    /\ cfg_made = 0
    /\ cfg_pc = [g \in Getters |-> "off"]
    /\ cfg_result = [g \in Getters |-> NotReturned]
    /\ cfg_calls = [g \in Getters |-> 0]
    /\ cfg_resets = 0

notCfg == <<rlVars, sbVars, mVars, coVars, pgVars, bkVars, guiVars, cblVars, tmVars>>

\* get_config line 76: `if _config is not None`
GetConfigTest(g) ==
    /\ cfg_pc[g] = "idle"
    /\ cfg_calls[g] < MaxGets
    /\ cfg_calls' = [cfg_calls EXCEPT ![g] = @ + 1]
    /\ cfg_pc' = [cfg_pc EXCEPT ![g] = IF cfg_config # NoConfig THEN "fast" ELSE "slow"]
    /\ UNCHANGED <<cfg_config, cfg_made, cfg_result, cfg_resets, notCfg>>

\* get_config line 77: `return _config`, the global read again
GetConfigFast(g) ==
    /\ cfg_pc[g] = "fast"
    /\ cfg_result' = [cfg_result EXCEPT ![g] = cfg_config]
    /\ cfg_pc' = [cfg_pc EXCEPT ![g] = "idle"]
    /\ UNCHANGED <<cfg_config, cfg_made, cfg_calls, cfg_resets, notCfg>>

\* The instance line 84 returns after lines 82-83
Locked(config, made) == IF config = NoConfig THEN made + 1 ELSE config

\* get_config lines 80-84, under the lock
GetConfigSlow(g) ==
    /\ cfg_pc[g] = "slow"
    /\ cfg_config' = Locked(cfg_config, cfg_made)
    /\ cfg_made' = IF cfg_config = NoConfig THEN cfg_made + 1 ELSE cfg_made
    /\ cfg_result' = [cfg_result EXCEPT ![g] = Locked(cfg_config, cfg_made)]
    /\ cfg_pc' = [cfg_pc EXCEPT ![g] = "idle"]
    /\ UNCHANGED <<cfg_calls, cfg_resets, notCfg>>

\* reset_config(), under the lock
ResetConfig ==
    /\ cfg_resets < MaxResets
    /\ cfg_resets' = cfg_resets + 1
    /\ cfg_config' = NoConfig
    /\ UNCHANGED <<cfg_made, cfg_pc, cfg_result, cfg_calls, notCfg>>

CfgNext ==
    \/ \E g \in Getters : GetConfigTest(g)
    \/ \E g \in Getters : GetConfigFast(g)
    \/ \E g \in Getters : GetConfigSlow(g)
    \/ ResetConfig

(***************************************************************************)
(* Reading orders that name one series twice: two issues of "A" under the  *)
(* same hints, the year hint none or a year around the start years of the  *)
(* catalog's volumes.                                                      *)
(***************************************************************************)
RepeatYears == {<<>>, StrOf(TargetYear - 1), StrOf(TargetYear), StrOf(TargetYear + 1), StrOf(TargetYear + 2)}

RepeatReference(issue_number, year_hint) ==
    [series_name |-> <<"A">>, issue_number |-> issue_number, volume_hint |-> <<>>,
     year_hint |-> year_hint, format_type |-> <<>>]

RepeatOrders ==
    {<<RepeatReference(<<"1">>, y), RepeatReference(<<"2">>, y)>> : y \in RepeatYears}

\* scraper.fetch_reading_order(url) on such a page
FetchRepeated ==
    /\ m_pc = "source"
    /\ ~(run_kind = "gui" /\ cancelled)
    /\ sources' = sources + 1
    /\ \/ /\ parsed_issues' \in RepeatOrders
          /\ m_pc' = "loop"
          /\ idx' = 1
          /\ all_books' = <<>>
          /\ match_results' = <<>>
          /\ SameMatcher
          /\ UNCHANGED <<urls_left, last_exit>>
       \/ \E e \in {"RequestException", "ValueError"} :
             IF e \in Caught(run_kind)
             THEN NextSource(volume_issues_cache, fetch_calls, last_searched,
                             last_volume)
             ELSE EndRun("exit1")
    /\ UNCHANGED <<cacheVars, rlVars, sbVars, xVars, guiVars>>

RepeatNext ==
    \/ StartParse
    \/ FetchRepeated
    \/ MatchLoop
    \/ WriteList
    \/ WriteReturn
    \/ AdvanceDay

(***************************************************************************)
(* cmd_prepopulate over the books of the .cbl files of a directory. Of a   *)
(* book only its series and its volume are read.                           *)
(***************************************************************************)
PrepSeries == {<<"A">>, <<>>}
PrepVolumes == {StrOf(TargetYear), StrOf(TargetYear + 1), <<>>, <<"b">>}
PrepBooks == [series : PrepSeries, volume : PrepVolumes]

RECURSIVE PrepLists(_)
PrepLists(n) ==
    IF n = 0 THEN {<<>>}
    ELSE PrepLists(n - 1) \cup {Append(l, b) : l \in {k \in PrepLists(n - 1) : Len(k) = n - 1}, b \in PrepBooks}

SentinelId == -1          \* cv_volume_id=-1
SentinelConfidence == 5   \* confidence=0.5, in tenths

\* cmd_prepopulate lines 155-180: the loop over the books, `added` being
\* volumes_added
RECURSIVE Prepopulate(_, _, _, _)
Prepopulate(mapping, books, added, day) ==
    IF books = <<>> THEN mapping
    ELSE LET book == Head(books)
             key == <<book.series, book.volume>>
         IN IF book.series = <<>> \/ book.volume = <<>> THEN Prepopulate(mapping, Tail(books), added, day)
            ELSE IF key \in added THEN Prepopulate(mapping, Tail(books), added, day)
            ELSE IF IntOf(book.volume) = ValueError THEN Prepopulate(mapping, Tail(books), added, day)
            ELSE Prepopulate(PutMapping(mapping, NormalizeSeriesName(book.series), IntOf(book.volume), SentinelId, SentinelConfidence, day),
                             Tail(books), added \cup {key}, day)

\* cmd_prepopulate: the directory is missing (exit 1) or holds `books`
CmdPrepopulate ==
    /\ CanCall
    /\ \E exists \in BOOLEAN, books \in PrepLists(MaxBooks) :
          cache_mapping' = IF exists THEN Prepopulate(cache_mapping, books, {}, today)
                           ELSE cache_mapping
    /\ UNCHANGED <<today, cache_volumes, cache_issues, cache_lookup, tx_pc,
                   tx_issues, tx_lookup, tx_todo, tx_before, ce_result,
                   ce_deleted, runVars, rlVars, sbVars, pgVars, bkVars, guiVars, zVars>>

PrepNext ==
    \/ CacheSeriesMapping
    \/ CmdPrepopulate
    \/ AdvanceDay

(***************************************************************************)
(* Specifications                                                          *)
(***************************************************************************)
RLIdle ==
    /\ max_requests = 0
    /\ window_seconds = 0
    /\ min_interval = 0
    /\ request_times = <<>>
    /\ last_request_time = 0
    /\ lock = NoThread
    /\ now = 0
    /\ pc = [t \in Threads |-> "idle"]
    /\ current_time = [t \in Threads |-> 0]
    /\ wake = [t \in Threads |-> 0]
    /\ returned = <<>>
    /\ query_result = -1
    /\ started = 0

\* The rate limiter shared by NumThreads threads.
InitRL == RLInit /\ SBIdle /\ MIdle /\ COIdle /\ PGIdle /\ BKIdle /\ NotCancelled /\ CBLIdle /\ TMIdle /\ CFGIdle
SpecRL == InitRL /\ [][RLNext]_vars

\* A step of thread t inside a call it has begun.
ThreadStep(t) ==
    \/ AcquireEnter(t)
    \/ WindowWake(t)
    \/ WindowResume(t)
    \/ IntervalWake(t)
    \/ IntervalResume(t)
    \/ RemainingRequests(t)

\* The same under a scheduler: a sleep returns, a thread that can run does,
\* and a thread waiting for the lock gets it if it is free again and again.
RLScheduled == \A t \in Threads : SF_vars(ThreadStep(t))
SpecRLFair == SpecRL /\ RLScheduled

\* One call of _select_best_volume on any candidate list.
InitScore == SBInit /\ RLIdle /\ MIdle /\ COIdle /\ PGIdle /\ BKIdle /\ NotCancelled /\ CBLIdle /\ TMIdle /\ CFGIdle
SpecScore == InitScore /\ [][SelectBest]_vars

\* Front-end runs, one after another, over one cache database.
InitMatch == MInit /\ RLIdle /\ SBIdle /\ COIdle /\ PGIdle /\ BKIdle /\ NotCancelled /\ CBLIdle /\ TMIdle /\ CFGIdle
SpecMatch == InitMatch /\ [][MNext]_vars

\* cmd_parse on reading orders that name one series twice.
SpecRepeat == InitMatch /\ [][RepeatNext]_vars

\* GUI generations, one after another, each of which may be cancelled.
InitGui == MInit /\ NotCancelled /\ RLIdle /\ SBIdle /\ COIdle /\ PGIdle /\ BKIdle /\ CBLIdle /\ TMIdle /\ CFGIdle
SpecGui == InitGui /\ [][GNext]_vars

\* One list written and read back.
InitCbl == CBLInit /\ RLIdle /\ SBIdle /\ MIdle /\ COIdle /\ PGIdle /\ BKIdle /\ NotCancelled /\ TMIdle /\ CFGIdle
SpecCbl == InitCbl /\ [][CblNext]_vars

\* A thread manager used from several threads.
InitThreads == TMInit /\ RLIdle /\ SBIdle /\ MIdle /\ COIdle /\ PGIdle /\ BKIdle /\ NotCancelled /\ CBLIdle /\ CFGIdle
SpecThreads == InitThreads /\ [][TNext]_vars

\* The same, with every thread that start_thread has registered started and
\* every started thread scheduled to poll the event.
ThreadsScheduled ==
    \A n \in Names : WF_vars(StartThreadStart(n)) /\ WF_vars(TargetSeesShutdown(n))
SpecThreadsFair == SpecThreads /\ ThreadsScheduled

\* Getter threads and a resetting thread on the global configuration.
InitConfig == CFGInit /\ RLIdle /\ SBIdle /\ MIdle /\ COIdle /\ PGIdle /\ BKIdle /\ NotCancelled /\ CBLIdle /\ TMIdle
SpecConfig == InitConfig /\ [][CfgNext]_vars

\* Cache operations called directly on one database, over the days.
InitCache == COInit /\ MIdle /\ RLIdle /\ SBIdle /\ PGIdle /\ BKIdle /\ NotCancelled /\ CBLIdle /\ TMIdle /\ CFGIdle
SpecCache == InitCache /\ [][CNext]_vars

\* prepopulate runs on a cache that matching has filled.
SpecPrepopulate == InitCache /\ [][PrepNext]_vars

\* One call of get_volume_issues for a volume of any size.
InitPages == PGInit /\ RLIdle /\ SBIdle /\ MIdle /\ COIdle /\ BKIdle /\ NotCancelled /\ CBLIdle /\ TMIdle /\ CFGIdle
SpecPages == InitPages /\ [][PNext]_vars

\* One matched reference, for any cover date of the issue found.
InitBook == BKInit /\ RLIdle /\ SBIdle /\ MIdle /\ COIdle /\ PGIdle /\ NotCancelled /\ CBLIdle /\ TMIdle /\ CFGIdle
SpecBook == InitBook /\ [][BuildMatchedBook]_vars

(***************************************************************************)
(* C9: _select_best_volume adds a size bonus of +10 to a candidate with    *)
(* issue_count > 50, +5 to one with 10 < issue_count <= 50, and 0          *)
(* otherwise: each candidate's score is its name, alias and year score     *)
(* plus that bonus.                                                        *)
(***************************************************************************)
C9_SizeBonus ==
    \A i \in 1..Len(scored_volumes) :
        LET vol == scored_volumes[i].vol
            bonus == IF vol.issue_count > 50 THEN 10
                     ELSE IF vol.issue_count > 10 THEN 5
                     ELSE 0
        IN scored_volumes[i].score =
              NameScore(vol, sb_name) + AliasScore(vol.aliases, sb_name)
                + YearScore(vol, sb_target) + bonus

(***************************************************************************)
(* C10: _select_best_volume returns the candidate with the highest total   *)
(* score, the earliest in input order among equal top scores, provided     *)
(* that score is >= 50; when the top score is < 50 or the list is empty    *)
(* it returns no volume.                                                   *)
(***************************************************************************)
C10_BestVolume ==
    sb_pc = "done" =>
        IF scored_volumes = <<>> THEN best_match = NoVolume
        ELSE LET top == CHOOSE i \in 1..Len(scored_volumes) :
                            /\ \A j \in 1..Len(scored_volumes) :
                                  scored_volumes[j].score <= scored_volumes[i].score
                            /\ \A j \in 1..(i - 1) :
                                  scored_volumes[j].score < scored_volumes[i].score
             IN IF scored_volumes[top].score >= 50
                THEN best_match = sb_volumes[top]
                ELSE best_match = NoVolume

\* The second of two candidates with the same score of at least 50 was
\* passed over for the first.
C10_Witness ==
    /\ sb_pc = "done"
    /\ Len(scored_volumes) = 2
    /\ scored_volumes[1].score = scored_volumes[2].score
    /\ scored_volumes[1].score >= 50
    /\ best_match = sb_volumes[1]

(***************************************************************************)
(* C6: for every source processed by cmd_parse, cmd_batch or the GUI       *)
(* worker, the list handed to the writer has exactly one entry per parsed  *)
(* issue, in input order: entry i is the matcher's result for input i when *)
(* match_issue returned a book, and otherwise a placeholder with input i's *)
(* series name and issue number and confidence 0.0.                        *)
(***************************************************************************)
C6_OrderPreserved ==
    m_pc = "written" =>
        /\ Len(all_books) = Len(parsed_issues)
        /\ Len(match_results) = Len(parsed_issues)
        /\ \A i \in 1..Len(parsed_issues) :
              IF match_results[i] # NoBook
              THEN all_books[i] = match_results[i]
              ELSE /\ all_books[i].series = parsed_issues[i].series_name
                   /\ all_books[i].number = parsed_issues[i].issue_number
                   /\ all_books[i].confidence = 0

\* A list of two is handed to the writer whose first issue was not matched
\* and whose second was.
C6_Witness ==
    /\ m_pc = "written"
    /\ Len(parsed_issues) = 2
    /\ match_results[1] = NoBook
    /\ match_results[2] # NoBook
    /\ all_books[2].cv_issue_id > 0

(***************************************************************************)
(* C7: _find_volume makes no catalog search call when the cache holds a    *)
(* non-expired series mapping for the normalized name (keyed with the      *)
(* target year when one is known) to a positive volume id whose volume row *)
(* is cached and non-expired; it returns that cached volume.               *)
(***************************************************************************)
C7_CacheFirst ==
    [][(m_pc = "loop" /\ idx <= Len(parsed_issues) /\ idx' = idx + 1) =>
        LET parsed == parsed_issues[idx]
            normalized == NormalizeSeriesName(parsed.series_name)
            target_year == TargetYearOf(parsed)
            usable == {m \in cache_mapping :
                         /\ m.normalized_name = normalized
                         /\ target_year # NoYear => m.start_year = target_year
                         /\ ~IsExpired(m.cached_at, today)
                         /\ m.cv_volume_id > 0
                         /\ GetVolume(cache_volumes, m.cv_volume_id, today)
                               # NoVolume}
        IN usable # {} =>
              /\ ~last_searched'
              /\ \E m \in usable :
                    last_volume' = GetVolume(cache_volumes, m.cv_volume_id, today)
      ]_vars

(***************************************************************************)
(* C8: within one SeriesMatcher instance, get_volume_issues is invoked at  *)
(* most once per volume id, whatever issue numbers are requested.          *)
(***************************************************************************)
C8_FetchOnce == \A v \in VolIds : fetch_calls[v] <= 1

(***************************************************************************)
(* C11: a volume, issue or series mapping written to the cache at time T   *)
(* is returned by its get operation at every time before T + expiry and is *)
(* absent at every time at or after T + expiry.                            *)
(***************************************************************************)
C11_ExpiryBoundary ==
    /\ \A r \in cache_volumes :
          GetVolume(cache_volumes, r.vol.cv_volume_id, today)
              = IF today < r.cached_at + ExpiryDays THEN r.vol ELSE NoVolume
    /\ \A m \in cache_mapping :
          GetVolumeForSeries(cache_mapping, m.normalized_name, m.start_year, today)
              = IF today < m.cached_at + ExpiryDays THEN m.cv_volume_id ELSE NoId
    /\ \A r \in cache_issues :
          (\E l \in cache_lookup :
              /\ l.cv_issue_id = r.issue.cv_issue_id
              /\ l.cv_volume_id = r.issue.cv_volume_id
              /\ l.issue_number = r.issue.issue_number)
          => GetIssue(cache_issues, cache_lookup, r.issue.cv_volume_id,
                      r.issue.issue_number, today)
                 = IF today < r.cached_at + ExpiryDays THEN r.issue ELSE NoIssue

(***************************************************************************)
(* C12: get_volume_for_series(name) called without a year returns the      *)
(* volume id of the stored mapping for that name with the highest          *)
(* confidence, ties broken by the greatest start year; the stored mappings *)
(* are those the cache still holds unexpired, and with none the result is  *)
(* absent.                                                                 *)
(***************************************************************************)
C12_BestMapping ==
    LET live == {m \in cache_mapping : /\ m.normalized_name = <<"a">>
                                       /\ ~IsExpired(m.cached_at, today)}
        result == GetVolumeForSeries(cache_mapping, <<"a">>, NoYear, today)
    IN IF live = {} THEN result = NoId
       ELSE \E m \in live :
               /\ result = m.cv_volume_id
               /\ \A o \in live :
                     \/ m.confidence > o.confidence
                     \/ /\ m.confidence = o.confidence
                        /\ m.start_year >= o.start_year

(***************************************************************************)
(* C13: in every state of the cache another reader can observe, during and *)
(* after any sequence of cache_issue / cache_volume_issues / clear_expired *)
(* calls, each row of issues has a corresponding issue_lookup row and each *)
(* issue_lookup row references an existing issues row.                     *)
(***************************************************************************)
C13_IssueLookupPaired ==
    /\ \A r \in cache_issues :
          \E l \in cache_lookup : l.cv_issue_id = r.issue.cv_issue_id
    /\ \A l \in cache_lookup :
          \E r \in cache_issues : r.issue.cv_issue_id = l.cv_issue_id

(***************************************************************************)
(* C14: when cache_volume_issues raises part-way, the error reaches the    *)
(* caller and the committed tables equal what they were before the         *)
(* operation began: none of its issue or lookup rows is persisted.         *)
(***************************************************************************)
C14_AllOrNothing ==
    tx_pc = "raised" =>
        /\ cache_issues = tx_before.issues
        /\ cache_lookup = tx_before.lookup

\* cache_volume_issues raised after it had written rows, with issues left
C14_Witness ==
    /\ tx_pc = "raised"
    /\ tx_todo # <<>>
    /\ tx_issues # tx_before.issues
    /\ tx_lookup # tx_before.lookup

(***************************************************************************)
(* C15: clear_expired() returns the total number of rows it deleted:       *)
(* expired volumes, expired issues, expired series mappings, and           *)
(* issue_lookup rows removed because their issue is no longer present.     *)
(***************************************************************************)
C15_RemovedCountsAll == ce_result = ce_deleted

(***************************************************************************)
(* C16: for a catalog that reports a fixed total T and serves the issues   *)
(* in pages of at most 100, get_volume_issues makes no more than           *)
(* ceil(T/100) requests (one when T = 0) and returns exactly the T issues  *)
(* in page order after exactly that many requests.                         *)
(***************************************************************************)
C16_AllPages ==
    LET pages == IF pg_total = 0 THEN 1
                 ELSE (pg_total + PageLimit - 1) \div PageLimit
    IN /\ pg_requests <= pages
       /\ pg_pc = "returned" =>
             /\ pg_result = [i \in 1..pg_total |-> i]
             /\ pg_requests = pages

\* A volume of more than two pages, the last one partial, was returned
C16_Witness ==
    /\ pg_pc = "returned"
    /\ pg_total > 2 * PageLimit
    /\ pg_total % PageLimit # 0
    /\ Len(pg_result) = pg_total

(***************************************************************************)
(* C17: get_volume_issues accumulates pages by iteration, not recursion:   *)
(* the depth of nested get_volume_issues activations stays at 1 however    *)
(* many pages the volume has.                                              *)
(***************************************************************************)
C17_DepthOne == Len(pg_stack) <= 1

(***************************************************************************)
(* C19: for a matched reference match_issue sets the record's year to the  *)
(* first four characters of the issue's cover date when the cover date is  *)
(* well formed, and to the volume's start year when the cover date is      *)
(* absent or malformed (shorter than four characters or not beginning with *)
(* four digits).                                                           *)
(***************************************************************************)
C19_YearOfRecord ==
    bk_pc = "built" =>
        bk_book.year =
            IF /\ Len(bk_issue.cover_date) >= 4
               /\ \A i \in 1..4 : IsDigit(bk_issue.cover_date[i])
            THEN SubSeq(bk_issue.cover_date, 1, 4)
            ELSE StrOf(bk_volume.start_year)

(***************************************************************************)
(* C20: in cmd_batch a failure while processing one URL (scrape failure,   *)
(* catalog call failure during matching, or file write failure) is         *)
(* reported and every later URL is still processed: no step of a batch run *)
(* ends it by an uncaught exception or while URLs are left.                *)
(***************************************************************************)
C20_BatchContinues ==
    [][run_kind = "batch" =>
          /\ last_exit' # "crashed"
          /\ urls_left > 1 => run_kind' = "batch"]_vars

(***************************************************************************)
(* C18: in a generation batch the cancellation flag is checked between     *)
(* processing each reference: once the flag is set, at most the reference  *)
(* in flight is completed and match_issue is not started for any later     *)
(* reference.                                                              *)
(***************************************************************************)
C18_CancelBetweenReferences == after_cancel <= 1

(***************************************************************************)
(* C21: writing a ReadingList with CBLWriter.write and reading the file    *)
(* back with CBLReader.read reproduces the same logical records: the same  *)
(* list name and, in the same order, books with the same series, number,   *)
(* volume, year, format type and identifier.                               *)
(***************************************************************************)
C21_RoundTrip == cbl_pc = "read" => cbl_read = cbl_list

(***************************************************************************)
(* C22: after ThreadManager.shutdown() is called, is_shutting_down() is    *)
(* true in every later state, every managed thread that polls the shutdown *)
(* event eventually exits, and an active_thread_names() or                 *)
(* active_thread_count() call made after that finds no thread.             *)
(***************************************************************************)
NoneRunning == \A n \in Names : tm_state[n] \notin {"registered", "alive"}

C22_Shutdown ==
    /\ [](sd_pc \in {"joining", "done"} => tm_shutdown_event)
    /\ (sd_pc \in {"joining", "done"}) ~> NoneRunning
    /\ [][(q_pc = "idle" /\ q_pc' = "cleaned" /\ NoneRunning) => tm_threads' = {}]_vars

\* shutdown() has returned, a thread that was running left on seeing the
\* event, and the cleanup found it
C22_Witness ==
    /\ sd_pc = "done"
    /\ \E n \in Names : tm_state[n] = "exited"
    /\ NoneRunning
    /\ tm_threads = {}

(***************************************************************************)
(* C23: a thread started by start_thread under a distinct name is tracked  *)
(* (counted by active_thread_count(), listed by active_thread_names())     *)
(* from the moment start_thread registers it until it has completed, under *)
(* any interleaving with cleanup_completed() calls from other threads; it  *)
(* is removed only after it has finished.                                  *)
(***************************************************************************)
C23_TracksRunning ==
    \A n \in Names : tm_state[n] \in {"registered", "alive"} => n \in tm_threads

(***************************************************************************)
(* C24: get_config() is thread-safe against a concurrent reset_config():   *)
(* under every interleaving of getter threads and a resetting thread each  *)
(* get_config() call returns a Config instance, never None, and without an *)
(* intervening reset all callers receive the same single instance.         *)
(***************************************************************************)
C24_NeverNone ==
    /\ \A g \in Getters : cfg_result[g] # NoConfig
    /\ cfg_resets = 0 =>
          \A g, h \in Getters :
             cfg_result[g] # NotReturned /\ cfg_result[h] # NotReturned
                => cfg_result[g] = cfg_result[h]

(***************************************************************************)
(* C25: after match_issue has resolved a reference through a catalog       *)
(* search with a confident automatic winner, resolving a reference of the  *)
(* same series name and hints while no cache entry has expired makes no    *)
(* further search call, also when the target year of the reference is not  *)
(* the start year of the winner.                                           *)
(***************************************************************************)
SameSeriesAndHints(a, b) ==
    /\ a.series_name = b.series_name
    /\ a.volume_hint = b.volume_hint
    /\ a.year_hint = b.year_hint

\* The last match_issue searched and took the automatic winner: its mapping
\* is in the cache with the confidence of line 153.
AutomaticWinner ==
    /\ last_searched
    /\ last_volume # NoVolume
    /\ \E m \in cache_mapping :
          /\ m.normalized_name = NormalizeSeriesName(parsed_issues[idx - 1].series_name)
          /\ m.cv_volume_id = last_volume.cv_volume_id
          /\ m.start_year = last_volume.start_year
          /\ m.confidence = 10

NothingExpired ==
    /\ \A m \in cache_mapping : ~IsExpired(m.cached_at, today)
    /\ \A r \in cache_volumes : ~IsExpired(r.cached_at, today)

SecondResolution ==
    /\ m_pc = "loop"
    /\ idx > 1
    /\ idx <= Len(parsed_issues)
    /\ SameSeriesAndHints(parsed_issues[idx - 1], parsed_issues[idx])
    /\ AutomaticWinner
    /\ NothingExpired

C25_NoSecondSearch ==
    [][(SecondResolution /\ idx' = idx + 1) => ~last_searched']_vars

\* The series was resolved twice, by a search and then from the cache, with
\* a year hint.
C25_Witness ==
    /\ m_pc = "loop"
    /\ idx = 3
    /\ parsed_issues[1].year_hint # <<>>
    /\ ~last_searched
    /\ last_volume # NoVolume
    /\ fetch_calls[last_volume.cv_volume_id] = 1

(***************************************************************************)
(* C26: after any sequence of cache_issue and cache_volume_issues calls,   *)
(* re-caching an issue id under a changed issue number or another issue id *)
(* under a used volume and number included, get_issue(volume_id,           *)
(* issue_number), when it returns an issue, returns one whose cv_volume_id *)
(* and issue_number are the requested key.                                 *)
(***************************************************************************)
C26_IssueOfKey ==
    \A l \in cache_lookup :
       LET issue == GetIssue(cache_issues, cache_lookup, l.cv_volume_id, l.issue_number, today)
       IN issue # NoIssue =>
             /\ issue.cv_volume_id = l.cv_volume_id
             /\ issue.issue_number = l.issue_number

(***************************************************************************)
(* C28: get_volume_for_series(name) called without a year returns a volume *)
(* id whenever at least one non-expired mapping exists for that name: an   *)
(* expired mapping that ranks first by confidence and start year does not  *)
(* hide a non-expired mapping of lower rank.                               *)
(***************************************************************************)
C28_LiveMappingFound ==
    \A m \in cache_mapping :
       ~IsExpired(m.cached_at, today)
          => GetVolumeForSeries(cache_mapping, m.normalized_name, NoYear, today) # NoId

(***************************************************************************)
(* C27: running prepopulate never degrades an existing mapping: a mapping  *)
(* for (normalized name, start year) with a resolved positive volume id    *)
(* has the same volume id and confidence after cmd_prepopulate, which only *)
(* adds sentinel mappings (id -1, confidence 0.5) for keys that had none.  *)
(***************************************************************************)
C27_PrepopulateKeeps ==
    [][CmdPrepopulate =>
          \A m \in cache_mapping :
             m.cv_volume_id > 0 =>
                \E n \in cache_mapping' :
                   /\ n.normalized_name = m.normalized_name
                   /\ n.start_year = m.start_year
                   /\ n.cv_volume_id = m.cv_volume_id
                   /\ n.confidence = m.confidence]_vars

(***************************************************************************)
(* C29: every run of the GUI generation worker eventually calls            *)
(* progress.complete(...), whether it processes all orders, is cancelled,  *)
(* or meets failures while processing individual orders: the worker does   *)
(* not end before it has reached the call after the loop over the orders.  *)
(***************************************************************************)
C29_WorkerCompletes ==
    [][(run_kind = "gui" /\ run_kind' = "none") => last_exit' \in {"done", "cancelled"}]_vars

(***************************************************************************)
(* C30: on a RateLimiter with max_requests >= 1 every acquire() call       *)
(* eventually returns, assuming time advances and threads waiting for the  *)
(* internal lock are scheduled fairly; waiting callers cannot deadlock     *)
(* each other or the query methods.                                        *)
(***************************************************************************)
C30_AcquireReturns ==
    \A t \in Threads :
       /\ (max_requests >= 1 /\ pc[t] = "acquire_wait") ~> (pc[t] = "idle")
       /\ (max_requests >= 1 /\ pc[t] = "remaining_wait") ~> (pc[t] = "idle")

\* A caller waits for the lock while another sleeps for the window inside
\* acquire(), an earlier call having returned.
C30_Witness ==
    /\ max_requests >= 1
    /\ returned # <<>>
    /\ \E t, u \in Threads :
          /\ pc[t] = "acquire_wait"
          /\ lock = u
          /\ pc[u] = "sleep_window"

=============================================================================
